---- MODULE Spec2Model ----
(***************************************************************************)
(* Wallstreet v2.0: the settlement engine (processGameEnds,                *)
(* forceSettleGame, settleGame, updateUserStats) and the game lifecycle    *)
(* operations that share its documents (launchGame, createGame), over a      *)
(* Firestore-like document store.  Every await of the source is a step     *)
(* boundary; a batch or transaction commit is one atomic step.             *)
(*                                                                         *)
(* Numbers: prices are small positive integers, a quantity is the exact    *)
(* rational budgetInvested / initialPrice, percentages rounded to 4        *)
(* decimals are integers in units of 1e-4 percent, amounts rounded to 2    *)
(* decimals are integers in units of 1e-2 credit.                          *)
(***************************************************************************)
EXTENDS Integers, Sequences, FiniteSets, TLC

\* ------------------------------------------------------------------ bounds
\* Timestamp.now() ranges over 0..MaxTime
MaxTime == 1
\* the audit log keeps at most MaxAudit entries per (action, game) pair
MaxAudit == 3
\* at most MaxFaults store operations are rejected (a failed batch.commit(),
\* a failed read or update of a user document)
MaxFaults == 1
\* calculateGameEndDate: endDate is startDate plus GameDuration clock ticks
GameDuration == 1

\* ------------------------------------------------------- program constants
TOTAL_BUDGET == 10000
GAMBLER_THRESHOLD == 8000
MAX_PLAYERS == 50

\* ------------------------------------------------------------- identifiers
Games == {"G1", "G2"}
PlayerIds == {"P1", "P2", "P3", "P4", "P5"}
Users == {"U1", "U2"}
Tickers == {"T1", "T2", "T3", "T4", "T5"}
\* the order in which a query returns documents (by document id)
GameOrder == <<"G1", "G2">>
PlayerOrder == <<"P1", "P2", "P3", "P4", "P5">>
\* context.auth.uid of the creator of every game of the model
Creator == "U1"
\* userId of an anonymous player
Anonymous == "null"
\* a field holding null
Null == [null |-> TRUE]
\* a document that does not exist
NoDoc == [exists |-> FALSE]

\* the outcomes of Math.random() in a mock price
MockPrices == {2, 4}
\* tickers findStockByTicker knows
KnownStocks == {"T1", "T2", "T3", "T4"}

\* ---------------------------------------------------------- pure helpers
RECURSIVE SeqSum(_)
SeqSum(s) == IF s = <<>> THEN 0 ELSE Head(s) + SeqSum(Tail(s))

RECURSIVE SelectSeqBy(_, _)
\* the subsequence of ids (in query order) that belong to set S
SelectSeqBy(order, S) ==
  IF order = <<>> THEN <<>>
  ELSE IF Head(order) \in S THEN <<Head(order)>> \o SelectSeqBy(Tail(order), S)
       ELSE SelectSeqBy(Tail(order), S)

Range(s) == {s[i] : i \in 1..Len(s)}

\* Math.round(n / d) for d > 0: floor(n/d + 1/2)
RoundDiv(n, d) == (2 * n + d) \div (2 * d)

RECURSIVE GCD(_, _)
GCD(a, b) == IF b = 0 THEN a ELSE GCD(b, a % b)

\* a number as an exact fraction
Rat(n) == [num |-> n, den |-> 1]

Abs(n) == IF n < 0 THEN -n ELSE n

\* a fraction in lowest terms (the value is unchanged)
Norm(r) ==
  LET g == GCD(Abs(r.num), r.den)
  IN  [num |-> r.num \div g, den |-> r.den \div g]

RatAdd(a, b) ==
  Norm([num |-> a.num * b.den + b.num * a.den, den |-> a.den * b.den])

RatLess(a, b) ==
  LET g == GCD(a.den, b.den)
  IN  a.num * (b.den \div g) < b.num * (a.den \div g)

\* roundTo(value, 4) of a percentage value = pct.num / pct.den, in 1e-4 percent;
\* roundTo(value, 2) of an amount, in 1e-2 credit
roundTo(value, decimals) ==
  LET factor == IF decimals = 4 THEN 10000 ELSE 100
      g == GCD(factor, value.den)
  IN  RoundDiv(value.num * (factor \div g), value.den \div g)

\* calculateReturn(initialPrice, finalPrice) as an exact fraction (percent);
\* initialPrice is an integer, finalPrice a fraction
calculateReturn(initialPrice, finalPrice) ==
  IF initialPrice = 0 THEN Rat(0)
  ELSE LET g == GCD(100, initialPrice)
       IN  Norm([num |-> (finalPrice.num - initialPrice * finalPrice.den) * (100 \div g),
                 den |-> (initialPrice \div g) * finalPrice.den])

\* calculateQuantity: budgetInvested / price as an exact fraction
calculateQuantity(budgetInvested, price) ==
  IF price = 0 THEN Rat(0)
  ELSE Norm([num |-> budgetInvested, den |-> price])

\* calculatePositionValue: quantity * price as an exact fraction
calculatePositionValue(quantity, price) ==
  Norm([num |-> quantity.num * price, den |-> quantity.den])

\* ------------------------------------------------- settlement computation
\* finalPrices[position.ticker] || initialPrice
FinalPriceOf(finalPrices, ticker, initialPrice) ==
  IF ticker \in DOMAIN finalPrices /\ finalPrices[ticker] # 0
  THEN finalPrices[ticker] ELSE initialPrice

\* one element of positionResults (settleGame, the loop over player.portfolio)
PositionResultOf(position, finalPrices) ==
  LET initialPrice == position.initialPrice
      finalPrice == FinalPriceOf(finalPrices, position.ticker, initialPrice)
      valueAtEnd == calculatePositionValue(position.quantity, finalPrice)
  IN  [ticker |-> position.ticker,
       budgetInvested |-> position.budgetInvested,
       quantity |-> position.quantity,
       initialPrice |-> initialPrice,
       finalPrice |-> finalPrice,
       returnPercent |-> roundTo(calculateReturn(initialPrice, Rat(finalPrice)), 4),
       valueAtEnd |-> roundTo(valueAtEnd, 2)]

RECURSIVE TotalFinalValue(_, _)
\* totalFinalValue += valueAtEnd, unrounded
TotalFinalValue(portfolio, finalPrices) ==
  IF portfolio = <<>> THEN Rat(0)
  ELSE LET position == Head(portfolio)
           finalPrice == FinalPriceOf(finalPrices, position.ticker, position.initialPrice)
       IN  RatAdd(calculatePositionValue(position.quantity, finalPrice),
                  TotalFinalValue(Tail(portfolio), finalPrices))

\* the Result of one player before ranking (rank 0)
ResultOf(gameCode, player, finalPrices, totalParticipants, calculatedAt) ==
  LET totalFinalValue == TotalFinalValue(player.portfolio, finalPrices)
  IN  [exists |-> TRUE,
       gameCode |-> gameCode,
       playerId |-> player.playerId,
       positionResults |->
         [k \in 1..Len(player.portfolio) |->
            PositionResultOf(player.portfolio[k], finalPrices)],
       portfolioReturnPercent |->
         roundTo(calculateReturn(TOTAL_BUDGET, totalFinalValue), 4),
       finalValue |-> roundTo(totalFinalValue, 2),
       rank |-> 0,
       totalParticipants |-> totalParticipants,
       awards |-> <<>>,
       whatIfMessage |-> Null,
       submittedAt |-> player.submittedAt,
       calculatedAt |-> calculatedAt]

\* a comparator without the tie-break on submittedAt
RankBefore_NoTieBreak(a, b) ==
  a.portfolioReturnPercent > b.portfolioReturnPercent

\* the comparator of rankResults: a sorts strictly before b
RankBefore(a, b) ==
  \/ a.portfolioReturnPercent > b.portfolioReturnPercent
  \/ /\ a.portfolioReturnPercent = b.portfolioReturnPercent
     /\ a.submittedAt < b.submittedAt

RECURSIVE InsertRanked(_, _)
\* stable insertion: r goes after every element that does not sort after it
InsertRanked(r, sorted) ==
  IF sorted = <<>> THEN <<r>>
  ELSE IF RankBefore(r, Head(sorted)) THEN <<r>> \o sorted
       ELSE <<Head(sorted)>> \o InsertRanked(r, Tail(sorted))

RECURSIVE SortResults(_)
\* results.sort(comparator): Array.prototype.sort is stable
SortResults(results) ==
  IF results = <<>> THEN <<>>
  ELSE InsertRanked(results[Len(results)],
                    SortResults(SubSeq(results, 1, Len(results) - 1)))

\* a ranking in which results with equal returns share a rank
rankResults_Shared(results) ==
  LET sorted == SortResults(results)
  IN  [i \in 1..Len(sorted) |->
         [sorted[i] EXCEPT !.rank =
            1 + Cardinality({j \in 1..Len(sorted) :
                  sorted[j].portfolioReturnPercent
                    > sorted[i].portfolioReturnPercent})]]

\* a ranking in the order of the players query
rankResults_Unsorted(results) ==
  [i \in 1..Len(results) |-> [results[i] EXCEPT !.rank = i]]

\* rankResults: sort, then rank = index + 1
rankResults(results) ==
  LET sorted == SortResults(results)
  IN  [i \in 1..Len(sorted) |-> [sorted[i] EXCEPT !.rank = i]]

\* the dates of the price snapshots read: the last trading day before the
\* launch (getLastTradingDay) and the day of the settlement (today)
Days == {"J1", "END"}

\* fetchFinalPrices: a price for every ticker that has a snapshot for today
\* or is a known stock (mock price, rnd[t] is the outcome of Math.random());
\* no entry for the others
\* a document written by storePriceSnapshot / dailyPriceSnapshot (quotes)
\* exists but has no closePrice: prices[ticker] is then undefined, kept as 0
\* (as falsy as undefined in finalPrices[ticker] || initialPrice)
fetchFinalPrices(tickers, snapshots, quotes, rnd) ==
  [t \in {u \in tickers : \/ snapshots[<<"END", u>>] # 0
                          \/ quotes[<<"END", u>>] # 0
                          \/ u \in KnownStocks} |->
     IF snapshots[<<"END", t>>] # 0 THEN snapshots[<<"END", t>>]
     ELSE IF quotes[<<"END", t>>] # 0 THEN 0
     ELSE rnd[t]]

\* getBestPosition / getWorstPosition: reduce keeps the first extreme
RECURSIVE BestIndex_Last(_, _)
\* a reduce that keeps the last extreme
BestIndex_Last(positions, n) ==
  IF n = 1 THEN 1
  ELSE LET b == BestIndex_Last(positions, n - 1)
       IN  IF positions[n].returnPercent >= positions[b].returnPercent THEN n ELSE b

RECURSIVE BestIndex(_, _)
BestIndex(positions, n) ==
  IF n = 1 THEN 1
  ELSE LET b == BestIndex(positions, n - 1)
       IN  IF positions[n].returnPercent > positions[b].returnPercent THEN n ELSE b

RECURSIVE WorstIndex(_, _)
WorstIndex(positions, n) ==
  IF n = 1 THEN 1
  ELSE LET w == WorstIndex(positions, n - 1)
       IN  IF positions[n].returnPercent < positions[w].returnPercent THEN n ELSE w

getBestPosition(positions) ==
  LET best == positions[BestIndex(positions, Len(positions))]
  IN  [ticker |-> best.ticker, returnPercent |-> best.returnPercent]

getWorstPosition(positions) ==
  LET worst == positions[WorstIndex(positions, Len(positions))]
  IN  [ticker |-> worst.ticker, returnPercent |-> worst.returnPercent]

\* ------------------------------------------------------- calculateAwards
RECURSIVE Flatten(_)
\* allPositions: the positions of all results, in the order of the results
Flatten(results) ==
  IF results = <<>> THEN <<>>
  ELSE [k \in 1..Len(results[1].positionResults) |->
          [playerId |-> results[1].playerId,
           ticker |-> results[1].positionResults[k].ticker,
           returnPercent |-> results[1].positionResults[k].returnPercent,
           budgetInvested |-> results[1].positionResults[k].budgetInvested]]
       \o Flatten(Tail(results))

\* the first big bet, whatever its budget
BiggestIndex_First(positions, n) == 1

RECURSIVE BiggestIndex(_, _)
\* bigBets.reduce: the first position with the largest budgetInvested
BiggestIndex(positions, n) ==
  IF n = 1 THEN 1
  ELSE LET m == BiggestIndex(positions, n - 1)
       IN  IF positions[n].budgetInvested > positions[m].budgetInvested
           THEN n ELSE m

\* results.find((r) => r.rank === rank): its index, 0 when there is none
FindRank(results, rank) ==
  IF \E i \in 1..Len(results) : results[i].rank = rank
  THEN CHOOSE i \in 1..Len(results) :
         /\ results[i].rank = rank
         /\ \A j \in 1..(i - 1) : results[j].rank # rank
  ELSE 0

\* a test that accepts a position that did not move
AllGreen_NonNegative(result) ==
  \A k \in 1..Len(result.positionResults) :
    result.positionResults[k].returnPercent >= 0

\* result.positionResults.every((pos) => pos.returnPercent > 0)
AllGreen(result) ==
  \A k \in 1..Len(result.positionResults) :
    result.positionResults[k].returnPercent > 0

Award(type, ticker, value) == [type |-> type, ticker |-> ticker, value |-> value]

\* the last-place award without its guard
InternGuard_Always(last) == TRUE

\* if (last && last.rank > 2)
InternGuard(last) == last.rank > 2

\* the worst-position award without its guard
BagHolderGuard_Always(worstStock) == TRUE

\* if (worstStock.returnPercent < 0)
BagHolderGuard(worstStock) == worstStock.returnPercent < 0

\* the podium awards of playerId: WOLF, DOLPHIN, INTERN
PodiumAwards(results, playerId) ==
  LET first == FindRank(results, 1)
      second == FindRank(results, 2)
      last == FindRank(results, Len(results))
  IN  (IF first # 0 /\ results[first].playerId = playerId
       THEN <<Award("WOLF", "none", results[first].portfolioReturnPercent)>>
       ELSE <<>>)
      \o (IF second # 0 /\ results[second].playerId = playerId
          THEN <<Award("DOLPHIN", "none", results[second].portfolioReturnPercent)>>
          ELSE <<>>)
      \o (IF last # 0 /\ InternGuard(results[last])
             /\ results[last].playerId = playerId
          THEN <<Award("INTERN", "none", results[last].portfolioReturnPercent)>>
          ELSE <<>>)

\* the special awards of playerId: ROCKET, BAG_HOLDER, ORACLE, GAMBLER
SpecialAwards(results, playerId) ==
  LET allPositions == Flatten(results)
      n == Len(allPositions)
      bestStock == allPositions[BestIndex(allPositions, n)]
      worstStock == allPositions[WorstIndex(allPositions, n)]
      allGreen(r) == AllGreen(r)
      bigBets == SelectSeq(allPositions,
                   LAMBDA pos : pos.budgetInvested >= GAMBLER_THRESHOLD)
      biggestBet == bigBets[BiggestIndex(bigBets, Len(bigBets))]
  IN  (IF n > 0 /\ bestStock.playerId = playerId
       THEN <<Award("ROCKET", bestStock.ticker, bestStock.returnPercent)>>
       ELSE <<>>)
      \o (IF n > 0 /\ BagHolderGuard(worstStock) /\ worstStock.playerId = playerId
          THEN <<Award("BAG_HOLDER", worstStock.ticker, worstStock.returnPercent)>>
          ELSE <<>>)
      \o (IF \E i \in 1..Len(results) :
               /\ results[i].playerId = playerId
               /\ allGreen(results[i])
               /\ \A j \in 1..(i - 1) : ~allGreen(results[j])
          THEN <<Award("ORACLE", "none", 0)>>
          ELSE <<>>)
      \o (IF Len(bigBets) > 0 /\ biggestBet.playerId = playerId
          THEN <<Award("GAMBLER", biggestBet.ticker, biggestBet.budgetInvested)>>
          ELSE <<>>)

\* an awards map with the podium awards only
calculateAwards_PodiumOnly(results, playerId) ==
  PodiumAwards(results, playerId)

\* awardsMap.get(playerId) after calculateAwards(results)
calculateAwards(results, playerId) ==
  PodiumAwards(results, playerId) \o SpecialAwards(results, playerId)

\* ------------------------------------------------ generateWhatIfMessage
\* a hypothetical rank that is always the first
HypotheticalRank_First(result, allResults, hypotheticalReturn) == 1

\* 1 + the number of other results whose return is above hypotheticalReturn
HypotheticalRank(result, allResults, hypotheticalReturn) ==
  1 + Cardinality({i \in 1..Len(allResults) :
                     /\ allResults[i].playerId # result.playerId
                     /\ allResults[i].portfolioReturnPercent > hypotheticalReturn})

\* the message is kept as the ticker and the rank it names; Null for none
generateWhatIfMessage(result, allResults) ==
  IF result.rank = 1 THEN Null
  ELSE LET bestPosition ==
             result.positionResults[BestIndex(result.positionResults,
                                              Len(result.positionResults))]
           hypotheticalRank ==
             HypotheticalRank(result, allResults, bestPosition.returnPercent)
       IN  IF hypotheticalRank >= result.rank THEN Null
           ELSE [ticker |-> bestPosition.ticker,
                 hypotheticalRank |-> hypotheticalRank]

\* settleGame throws before building the batch: reduce() of an empty
\* positionResults in generateWhatIfMessage / getBestPosition (TypeError)
ComputeThrows(playerDocs) ==
  \E i \in 1..Len(playerDocs) : playerDocs[i].portfolio = <<>>

\* settleGame, from the loop over players to the awards and what-if messages
ComputeResults(gameCode, playerDocs, finalPrices, calculatedAt) ==
  LET ranked == rankResults([i \in 1..Len(playerDocs) |->
                   ResultOf(gameCode, playerDocs[i], finalPrices,
                            Len(playerDocs), calculatedAt)])
  IN  [i \in 1..Len(ranked) |->
         [ranked[i] EXCEPT
            !.awards = calculateAwards(ranked, ranked[i].playerId),
            !.whatIfMessage = generateWhatIfMessage(ranked[i], ranked)]]

\* the leaderboard entry settleGame builds from a result
LeaderboardEntryOf(result) ==
  [exists |-> TRUE,
   gameCode |-> result.gameCode,
   rank |-> result.rank,
   playerId |-> result.playerId,
   portfolioReturnPercent |-> result.portfolioReturnPercent,
   finalValue |-> result.finalValue,
   awards |-> result.awards,
   bestPosition |-> getBestPosition(result.positionResults),
   worstPosition |-> getWorstPosition(result.positionResults)]

\* ------------------------------------------------------------------ state
VARIABLES
  games,           \* collection 'games': [Games -> document]
  players,         \* collection 'players': [PlayerIds -> document]
  results,         \* collection 'results', document `${gameCode}_${playerId}`
  leaderboard,     \* collection 'leaderboard', same document ids
  users,           \* collection 'users': [Users -> document with stats]
  auditLog,        \* collection 'auditLog': entries per <<action, game>>
  priceSnapshots,  \* collection 'priceSnapshots', document `${date}_${ticker}`:
                   \* closePrice, 0 = no document or no such field
  storedQuotes,    \* the same collection: the field price of the documents
                   \* storePriceSnapshot / dailyPriceSnapshot set, 0 = none
  now,             \* Timestamp.now()
  spc,             \* settlement processes: position in the code
  sq,              \* processGameEnds: the docs of gamesQuery not yet visited
  sl,              \* settlement processes: local variables
  lpc,             \* launchGame callers: position in the code
  ll,              \* launchGame callers: local variables
  cpc,             \* createGame callers: position in the code
  jpc,             \* joinGame callers: position in the code
  jl,              \* joinGame callers: local variables
  vpc,             \* leaveGame callers: position in the code
  vl,              \* leaveGame callers: local variables
  gpc,             \* getGamePlayers callers: position in the code
  gl,              \* getGamePlayers callers: local variables
  faults,          \* store operations rejected so far
  commits,         \* history: settlement batches committed per game
  completed        \* history: games for which a settleGame call has returned

vars == <<games, players, results, leaderboard, users, auditLog, priceSnapshots,
          storedQuotes, now, spc, sq, sl, lpc, ll, cpc, jpc, jl, vpc, vl, gpc,
          gl, faults, commits, completed>>

db == <<games, players, results, leaderboard, users, auditLog, priceSnapshots,
        storedQuotes>>

\* overlapping runs of the scheduled trigger, and forceSettleGame callers
Runs == {"R1"}
Forcers == {"F1", "F2", "F3"}
Settlers == Runs \cup Forcers
Launchers == {"L1", "L2"}
Creators == {"K1"}
Joiners == {"J1", "J2"}
Leavers == {"V1", "V2"}
Viewers == {"W1"}

\* ----------------------------------------------------------- store views
\* .where('gameCode', '==', g) on players, in query order
PlayersOf(g) ==
  LET ids == SelectSeqBy(PlayerOrder,
               {q \in PlayerIds : players[q].exists /\ players[q].gameCode = g})
  IN  [i \in 1..Len(ids) |-> players[ids[i]]]

ResultsOf(g) == {q \in PlayerIds : results[q].exists /\ results[q].gameCode = g}
LeaderboardOf(g) ==
  {q \in PlayerIds : leaderboard[q].exists /\ leaderboard[q].gameCode = g}

defaultStats ==
  [gamesPlayed |-> 0, gamesWon |-> 0, totalReturns |-> 0,
   bestReturn |-> 0, averageRank |-> 0]

\* a launched position: initialPrice frozen, quantity computed
Position(ticker, budgetInvested, initialPrice) ==
  [ticker |-> ticker, budgetInvested |-> budgetInvested,
   initialPrice |-> initialPrice,
   quantity |-> calculateQuantity(budgetInvested, initialPrice)]

\* a portfolio of exactly 3 positions whose budgets add up to TOTAL_BUDGET
Portfolio(tickers, budgets, price) ==
  [k \in 1..3 |-> Position(tickers[k], budgets[k], price)]

\* the nicknames of the players no joinGame call of the model creates
PlayerNickname(id) ==
  CASE id = "P1" -> "p1" [] id = "P2" -> "p2" [] id = "P3" -> "p3"
    [] id = "P4" -> "p4" [] OTHER -> "p5"

PlayerDoc(id, g, userId, isReady, portfolio, submittedAt) ==
  [exists |-> TRUE, playerId |-> id, gameCode |-> g, userId |-> userId,
   nickname |-> PlayerNickname(id),
   isReady |-> isReady, portfolio |-> portfolio, submittedAt |-> submittedAt]

GameDoc(status, startDate, endDate, snapshot, tickers, playerCount) ==
  [exists |-> TRUE, status |-> status, creatorId |-> Creator,
   startDate |-> startDate, endDate |-> endDate,
   initialPricesSnapshot |-> snapshot, tickers |-> tickers,
   playerCount |-> playerCount, maxPlayers |-> MAX_PLAYERS,
   dataQualityFlag |-> "OK", endedAt |-> Null]

AuditActions ==
  {"GAME_SETTLED", "GAME_LAUNCHED", "GAME_CREATED", "GAME_JOINED", "GAME_LEFT"}

\* createAuditLog(db, action, ..., gameCode, ...)
createAuditLog(log, action, g) ==
  [log EXCEPT ![<<action, g>>] = IF @ < MaxAudit THEN @ + 1 ELSE @]

\* ------------------------------------------------ settlement: local state
SLInit ==
  [game |-> "none", status |-> "none", tickers |-> {}, finalPrices |-> <<>>,
   results |-> <<>>,
   idx |-> 0, stats |-> defaultStats, userId |-> "none",
   wrote |-> FALSE, afterDone |-> FALSE, outcome |-> "none",
   found |-> {}, attempted |-> {}, threw |-> {}]

\* the locals once settleGame has returned ("ok", "noop") or thrown ("threw")
Finished(l, outcome) ==
  [l EXCEPT !.status = "none", !.tickers = {}, !.finalPrices = <<>>,
            !.results = <<>>, !.idx = 0,
            !.stats = defaultStats, !.userId = "none", !.outcome = outcome]

\* ------------------------------------------------------- processGameEnds
\* the query: LIVE games whose endDate has passed
GamesToSettle(gs, t) ==
  {g \in Games : gs[g].exists /\ gs[g].status = "LIVE" /\ gs[g].endDate <= t}

processGameEnds(p) ==
  /\ p \in Runs /\ spc[p] = "idle"
  /\ LET found == GamesToSettle(games, now)
     IN  /\ sq' = [sq EXCEPT ![p] = SelectSeqBy(GameOrder, found)]
         /\ sl' = [sl EXCEPT ![p] = [SLInit EXCEPT !.found = found]]
  /\ spc' = [spc EXCEPT ![p] = "loop"]
  /\ UNCHANGED <<db, now, lpc, ll, cpc, jpc, jl, vpc, vl, gpc, gl, faults, commits, completed>>

\* for (const gameDoc of gamesQuery.docs) { try { await settleGame(...) } ... }
NextGame(p) ==
  /\ p \in Runs /\ spc[p] = "loop"
  /\ \/ /\ sq[p] = <<>>
        /\ spc' = [spc EXCEPT ![p] = "idle"]
        /\ sl' = [sl EXCEPT ![p] = SLInit]
        /\ sq' = sq
     \/ /\ sq[p] # <<>>
        /\ sq' = [sq EXCEPT ![p] = Tail(@)]
        /\ sl' = [sl EXCEPT ![p] =
                    [@ EXCEPT !.game = Head(sq[p]),
                              !.attempted = @ \cup {Head(sq[p])}]]
        /\ spc' = [spc EXCEPT ![p] = "get"]
  /\ UNCHANGED <<db, now, lpc, ll, cpc, jpc, jl, vpc, vl, gpc, gl, faults, commits, completed>>

\* a loop without the try/catch: the exception ends the run
CatchSettleError_Abort(queue) == <<>>

\* the catch block of processGameEnds: the error is logged and the loop
\* goes on with the next game; the queue of the run is what it leaves
CatchSettleError(queue) == queue

\* settleGame has returned or thrown inside the try block of the loop
processGameEnds_Settled(p) ==
  /\ p \in Runs /\ spc[p] \in {"returned", "threw"}
  /\ sq' = [sq EXCEPT ![p] = IF spc[p] = "threw" THEN CatchSettleError(@) ELSE @]
  /\ sl' = [sl EXCEPT ![p] =
              [@ EXCEPT !.game = "none", !.wrote = FALSE, !.afterDone = FALSE,
                        !.outcome = "none",
                        !.threw = IF spc[p] = "threw" THEN @ \cup {sl[p].game}
                                  ELSE @]]
  /\ spc' = [spc EXCEPT ![p] = "loop"]
  /\ UNCHANGED <<db, now, lpc, ll, cpc, jpc, jl, vpc, vl, gpc, gl, faults, commits, completed>>

\* ------------------------------------------------------- forceSettleGame
\* context.auth.uid of the caller
CallerUid(p) ==
  CASE p = "F2" -> "U2"
    [] p = "F3" -> Anonymous
    [] OTHER -> Creator

\* forceSettleGame without the creator check
ForceCheck_AnyUser(gameDoc, uid) ==
  IF uid = Anonymous THEN "unauthenticated"
  ELSE IF ~gameDoc.exists THEN "not-found"
  ELSE IF gameDoc.status # "LIVE" THEN "failed-precondition"
  ELSE "pass"

\* forceSettleGame without the status check
ForceCheck_AnyStatus(gameDoc, uid) ==
  IF uid = Anonymous THEN "unauthenticated"
  ELSE IF ~gameDoc.exists THEN "not-found"
  ELSE IF gameDoc.creatorId # uid THEN "permission-denied"
  ELSE "pass"

\* the checks of forceSettleGame: the error it throws, or "pass"
ForceCheck(gameDoc, uid) ==
  IF uid = Anonymous THEN "unauthenticated"
  ELSE IF ~gameDoc.exists THEN "not-found"
  ELSE IF gameDoc.creatorId # uid THEN "permission-denied"
  ELSE IF gameDoc.status # "LIVE" THEN "failed-precondition"
  ELSE "pass"

forceSettleGame(p, g) ==
  /\ p \in Forcers /\ spc[p] = "idle"
  /\ LET check == ForceCheck(games[g], CallerUid(p))
     IN  IF check = "pass"
         THEN /\ spc' = [spc EXCEPT ![p] = "get"]
              /\ sl' = [sl EXCEPT ![p] = [SLInit EXCEPT !.game = g]]
         ELSE /\ spc' = [spc EXCEPT ![p] = "threw"]
              /\ sl' = [sl EXCEPT ![p] =
                          [SLInit EXCEPT !.game = g, !.outcome = check]]
  /\ UNCHANGED <<db, now, sq, lpc, ll, cpc, jpc, jl, vpc, vl, gpc, gl, faults, commits, completed>>

\* forceSettleGame returns {success: true}, or its exception reaches the caller
forceSettleGame_End(p) ==
  /\ p \in Forcers /\ spc[p] \in {"returned", "threw"}
  /\ sl' = [sl EXCEPT ![p] = SLInit]
  /\ spc' = [spc EXCEPT ![p] = "idle"]
  /\ UNCHANGED <<db, now, sq, lpc, ll, cpc, jpc, jl, vpc, vl, gpc, gl, faults, commits, completed>>

\* ------------------------------------------------------------ settleGame
\* const gameDoc = await gameRef.get()
settleGame_Get(p) ==
  /\ spc[p] = "get"
  /\ sl' = [sl EXCEPT ![p] = [@ EXCEPT !.status = games[sl[p].game].status,
                                       !.tickers = games[sl[p].game].tickers,
                                       !.afterDone = completed[sl[p].game]]]
  /\ spc' = [spc EXCEPT ![p] = "check"]
  /\ UNCHANGED <<db, now, sq, lpc, ll, cpc, jpc, jl, vpc, vl, gpc, gl, faults, commits, completed>>

\* settleGame without its two guards
AlreadySettled_Never(existingEmpty, status) == FALSE

\* the two guards of settleGame: a Result exists, or the status read is ENDED
AlreadySettled(existingEmpty, status) ==
  ~existingEmpty \/ status = "ENDED"

\* the existingResults query and the two early returns
settleGame_Check(p) ==
  /\ spc[p] = "check"
  /\ LET g == sl[p].game
     IN  IF AlreadySettled(ResultsOf(g) = {}, sl[p].status)
         THEN /\ sl' = [sl EXCEPT ![p] = Finished(@, "noop")]
              /\ spc' = [spc EXCEPT ![p] = "returned"]
              /\ completed' = [completed EXCEPT ![g] = TRUE]
         ELSE /\ sl' = sl
              /\ spc' = [spc EXCEPT ![p] = "players"]
              /\ completed' = completed
  /\ UNCHANGED <<db, now, sq, lpc, ll, cpc, jpc, jl, vpc, vl, gpc, gl, faults, commits>>

\* the players query, fetchFinalPrices and the computation of the ranked
\* results (these read no document another operation of the model writes
\* after the players query); a TypeError leaves settleGame before the batch
settleGame_Compute(p) ==
  /\ spc[p] = "players"
  /\ LET g == sl[p].game
         playerDocs == PlayersOf(g)
     IN  \/ /\ ComputeThrows(playerDocs)
            /\ sl' = [sl EXCEPT ![p] = Finished(@, "threw")]
            /\ spc' = [spc EXCEPT ![p] = "threw"]
         \/ /\ ~ComputeThrows(playerDocs)
            /\ \E rnd \in [{t \in sl[p].tickers :
                             /\ priceSnapshots[<<"END", t>>] = 0
                             /\ storedQuotes[<<"END", t>>] = 0} -> MockPrices] :
                 LET finalPrices ==
                       fetchFinalPrices(sl[p].tickers, priceSnapshots,
                                        storedQuotes, rnd)
                 IN  sl' = [sl EXCEPT ![p] =
                              [@ EXCEPT !.finalPrices = finalPrices,
                                        !.results = ComputeResults(g, playerDocs,
                                                      finalPrices, now)]]
            /\ spc' = [spc EXCEPT ![p] = "commit"]
  /\ UNCHANGED <<db, now, sq, lpc, ll, cpc, jpc, jl, vpc, vl, gpc, gl, faults, commits, completed>>

\* a batch without its Results
BatchResults_None(res, computed) == res

\* batch.set(results/<id>, result) for every result of the batch
BatchResults(res, computed) ==
  [q \in PlayerIds |->
     IF \E i \in 1..Len(computed) : computed[i].playerId = q
     THEN computed[CHOOSE i \in 1..Len(computed) : computed[i].playerId = q]
     ELSE res[q]]

\* a batch that leaves the leaderboard entries that already exist as they are
BatchLeaderboard_KeepExisting(lb, computed) ==
  [q \in PlayerIds |->
     IF ~lb[q].exists /\ \E i \in 1..Len(computed) : computed[i].playerId = q
     THEN LeaderboardEntryOf(
            computed[CHOOSE i \in 1..Len(computed) : computed[i].playerId = q])
     ELSE lb[q]]

\* batch.set(leaderboard/<id>, leaderboardEntry) for every result
BatchLeaderboard(lb, computed) ==
  [q \in PlayerIds |->
     IF \E i \in 1..Len(computed) : computed[i].playerId = q
     THEN LeaderboardEntryOf(
            computed[CHOOSE i \in 1..Len(computed) : computed[i].playerId = q])
     ELSE lb[q]]

\* a batch whose update of the game is lost
BatchGame_StatusKept(gs, g, t) == gs

\* batch.update(gameRef, {status: 'ENDED', endedAt})
BatchGame(gs, g, t) ==
  [gs EXCEPT ![g] = [@ EXCEPT !.status = "ENDED", !.endedAt = t]]

\* a batch that is not atomic: its first result is written although the
\* commit is rejected
RejectedBatchResults_Partial(res, computed) ==
  BatchResults(res, SubSeq(computed, 1, 1))

\* what a rejected batch.commit() leaves of the 'results' collection
RejectedBatchResults(res, computed) == res

\* await batch.commit(): all writes of the batch, or none and an exception
settleGame_Commit(p) ==
  /\ spc[p] = "commit"
  /\ LET g == sl[p].game
     IN  \/ /\ results' = BatchResults(results, sl[p].results)
            /\ leaderboard' = BatchLeaderboard(leaderboard, sl[p].results)
            /\ games' = BatchGame(games, g, now)
            /\ commits' = [commits EXCEPT ![g] = @ + 1]
            /\ sl' = [sl EXCEPT ![p] = [@ EXCEPT !.wrote = TRUE, !.idx = 1,
                                                 !.finalPrices = <<>>]]
            /\ spc' = [spc EXCEPT ![p] = "stats"]
            /\ faults' = faults
         \/ /\ faults < MaxFaults
            /\ faults' = faults + 1
            /\ results' = RejectedBatchResults(results, sl[p].results)
            /\ UNCHANGED <<leaderboard, games, commits>>
            /\ sl' = [sl EXCEPT ![p] = Finished(@, "threw")]
            /\ spc' = [spc EXCEPT ![p] = "threw"]
  /\ UNCHANGED <<players, users, auditLog, priceSnapshots, storedQuotes, now, sq, lpc, ll,
                 cpc, jpc, jl, vpc, vl, gpc, gl, completed>>

\* ------------------------------------------------------- updateUserStats
Max(a, b) == IF a > b THEN a ELSE b

\* the stats written by userRef.update: totalReturns, bestReturn and
\* averageRank are rounded to 2 decimals (stored in units of 1e-2),
\* result.portfolioReturnPercent is in units of 1e-4
NewStats(currentStats, result) ==
  LET newGamesPlayed == currentStats.gamesPlayed + 1
      newGamesWon == currentStats.gamesWon + (IF result.rank = 1 THEN 1 ELSE 0)
      newTotalReturns ==
        [num |-> currentStats.totalReturns * 100 + result.portfolioReturnPercent,
         den |-> 10000]
      newBestReturn ==
        [num |-> Max(currentStats.bestReturn * 100, result.portfolioReturnPercent),
         den |-> 10000]
      totalRankSum ==
        [num |-> currentStats.averageRank * currentStats.gamesPlayed
                   + 100 * result.rank,
         den |-> 100]
      newAverageRank ==
        [num |-> totalRankSum.num, den |-> totalRankSum.den * newGamesPlayed]
  IN  [gamesPlayed |-> newGamesPlayed,
       gamesWon |-> newGamesWon,
       totalReturns |-> roundTo(newTotalReturns, 2),
       bestReturn |-> roundTo(newBestReturn, 2),
       averageRank |-> roundTo(newAverageRank, 2)]

\* what an exception inside the loop of updateUserStats does: there is no
\* try/catch around the body, so it leaves updateUserStats and settleGame
StatsFailure(l) == Finished(l, "threw")

\* one iteration of the loop up to the user read: the player document, the
\* anonymous / missing-user skips, and the stats the update will start from
updateUserStats_Read(p) ==
  /\ spc[p] = "stats"
  /\ LET l == sl[p]
     IN  IF l.idx > Len(l.results)
         THEN /\ spc' = [spc EXCEPT ![p] = "audit"]
              /\ sl' = sl
         ELSE LET playerDoc == players[l.results[l.idx].playerId]
              IN  IF ~playerDoc.exists
                  THEN \* playerDoc.data() is undefined: TypeError
                       /\ sl' = [sl EXCEPT ![p] = StatsFailure(@)]
                       /\ spc' = [spc EXCEPT ![p] = "threw"]
                  ELSE IF playerDoc.userId = Anonymous
                          \/ ~users[playerDoc.userId].exists
                  THEN /\ sl' = [sl EXCEPT ![p].idx = @ + 1]
                       /\ spc' = spc
                  ELSE /\ sl' = [sl EXCEPT ![p] =
                                  [@ EXCEPT !.userId = playerDoc.userId,
                                            !.stats = users[playerDoc.userId].stats]]
                       /\ spc' = [spc EXCEPT ![p] = "stats_w"]
  /\ UNCHANGED <<db, now, sq, lpc, ll, cpc, jpc, jl, vpc, vl, gpc, gl, faults, commits, completed>>

\* await userRef.update({...})
updateUserStats_Update(p) ==
  /\ spc[p] = "stats_w"
  /\ LET l == sl[p]
     IN  /\ users' = [users EXCEPT ![l.userId].stats =
                        NewStats(l.stats, l.results[l.idx])]
         /\ sl' = [sl EXCEPT ![p] = [@ EXCEPT !.idx = @ + 1,
                                              !.userId = "none",
                                              !.stats = defaultStats]]
  /\ spc' = [spc EXCEPT ![p] = "stats"]
  /\ UNCHANGED <<games, players, results, leaderboard, auditLog,
                 priceSnapshots, storedQuotes, now, sq, lpc, ll, cpc, jpc, jl, vpc, vl, gpc, gl, faults, commits, completed>>

\* a read or the update of one user's statistics is rejected
updateUserStats_Fail(p) ==
  /\ \/ spc[p] = "stats_w"
     \/ spc[p] = "stats" /\ sl[p].idx <= Len(sl[p].results)
  /\ faults < MaxFaults
  /\ faults' = faults + 1
  /\ sl' = [sl EXCEPT ![p] = StatsFailure(@)]
  /\ spc' = [spc EXCEPT ![p] = "threw"]
  /\ UNCHANGED <<db, now, sq, lpc, ll, cpc, jpc, jl, vpc, vl, gpc, gl, commits, completed>>

\* createAuditLog('GAME_SETTLED') and the return of settleGame
settleGame_Audit(p) ==
  /\ spc[p] = "audit"
  /\ auditLog' = createAuditLog(auditLog, "GAME_SETTLED", sl[p].game)
  /\ completed' = [completed EXCEPT ![sl[p].game] = TRUE]
  /\ sl' = [sl EXCEPT ![p] = Finished(@, "ok")]
  /\ spc' = [spc EXCEPT ![p] = "returned"]
  /\ UNCHANGED <<games, players, results, leaderboard, users, priceSnapshots, storedQuotes,
                 now, sq, lpc, ll, cpc, jpc, jl, vpc, vl, gpc, gl, faults, commits>>

\* ------------------------------------------------------------ launchGame
LLInit ==
  [game |-> "none", ready |-> <<>>, notReady |-> {}, prices |-> <<>>,
   startDate |-> 0]

\* the checks of launchGame on the game document: the error, or "pass"
LaunchCheck(gameDoc, uid) ==
  IF uid = Anonymous THEN "unauthenticated"
  ELSE IF ~gameDoc.exists THEN "not-found"
  ELSE IF gameDoc.creatorId # uid THEN "permission-denied"
  ELSE IF gameDoc.status # "DRAFT" THEN "failed-precondition"
  ELSE "pass"

\* const gameDoc = await gameRef.get() and the creator / status checks
launchGame_Get(l, g) ==
  /\ lpc[l] = "idle"
  /\ IF LaunchCheck(games[g], Creator) = "pass"
     THEN /\ lpc' = [lpc EXCEPT ![l] = "players"]
          /\ ll' = [ll EXCEPT ![l].game = g]
     ELSE /\ lpc' = [lpc EXCEPT ![l] = "done"]
          /\ ll' = ll
  /\ UNCHANGED <<db, now, spc, sq, sl, cpc, jpc, jl, vpc, vl, gpc, gl, faults, commits, completed>>

\* all tickers of the portfolios of the ready players
TickersOf(playerDocs) ==
  UNION {{playerDocs[i].portfolio[k].ticker :
            k \in 1..Len(playerDocs[i].portfolio)} : i \in 1..Len(playerDocs)}

\* the J-1 prices: the snapshot, or a mock price for a known stock
InitialPrices(tickers, snapshots, rnd) ==
  [t \in tickers |->
     IF snapshots[<<"J1", t>>] # 0 THEN snapshots[<<"J1", t>>] ELSE rnd[t]]

\* the players query, the ready / not-ready split, the J-1 prices and
\* const startDate = new Date()
launchGame_Players(l) ==
  /\ lpc[l] = "players"
  /\ LET all == PlayersOf(ll[l].game)
         ready == SelectSeq(all, LAMBDA d : d.isReady)
         notReady == {all[i].playerId : i \in {j \in 1..Len(all) : ~all[j].isReady}}
         tickers == TickersOf(ready)
     IN  IF Len(ready) < 1 \/ \E t \in tickers :
                                 /\ priceSnapshots[<<"J1", t>>] = 0
                                 /\ t \notin KnownStocks
         THEN /\ lpc' = [lpc EXCEPT ![l] = "done"]
              /\ ll' = [ll EXCEPT ![l] = LLInit]
         ELSE /\ \E rnd \in [{t \in tickers : priceSnapshots[<<"J1", t>>] = 0}
                              -> MockPrices] :
                   ll' = [ll EXCEPT ![l] =
                            [@ EXCEPT !.ready = ready, !.notReady = notReady,
                                      !.prices = InitialPrices(tickers,
                                                   priceSnapshots, rnd),
                                      !.startDate = now]]
              /\ lpc' = [lpc EXCEPT ![l] = "commit"]
  /\ UNCHANGED <<db, now, spc, sq, sl, cpc, jpc, jl, vpc, vl, gpc, gl, faults, commits, completed>>

\* start + DURATION_DAYS at 22h30 Paris time, in the time unit of the model
calculateGameEndDate(startDate) == startDate + GameDuration

\* a launch that freezes the prices and leaves the quantities as submitted
LaunchedPortfolio_PriceOnly(portfolio, initialPrices) ==
  [k \in 1..Len(portfolio) |->
     [portfolio[k] EXCEPT
        !.initialPrice = initialPrices[portfolio[k].ticker]]]

\* the portfolio launchGame writes for a ready player
LaunchedPortfolio(portfolio, initialPrices) ==
  [k \in 1..Len(portfolio) |->
     [portfolio[k] EXCEPT
        !.initialPrice = initialPrices[portfolio[k].ticker],
        !.quantity = calculateQuantity(portfolio[k].budgetInvested,
                                       initialPrices[portfolio[k].ticker])]]

\* batch.update(gameRef, {status: 'LIVE', ...}): no precondition on the
\* status the document has when the batch commits
LaunchedGame(gameDoc, l) ==
  [gameDoc EXCEPT !.status = "LIVE",
                  !.startDate = l.startDate,
                  !.endDate = calculateGameEndDate(l.startDate),
                  !.initialPricesSnapshot = l.prices,
                  !.tickers = DOMAIN l.prices,
                  !.playerCount = Len(l.ready)]

\* await batch.commit(): rejected as a whole when a document it updates
\* does not exist; followed by createAuditLog('GAME_LAUNCHED')
launchGame_Commit(l) ==
  /\ lpc[l] = "commit"
  /\ LET g == ll[l].game
         readyIds == {ll[l].ready[i].playerId : i \in 1..Len(ll[l].ready)}
     IN  IF games[g].exists /\ \A q \in readyIds : players[q].exists
         THEN /\ games' = [games EXCEPT ![g] = LaunchedGame(@, ll[l])]
              /\ players' =
                   [q \in PlayerIds |->
                      IF q \in ll[l].notReady THEN NoDoc
                      ELSE IF q \in readyIds
                      THEN [players[q] EXCEPT !.portfolio =
                              LaunchedPortfolio(
                                (CHOOSE d \in Range(ll[l].ready) : d.playerId = q).portfolio,
                                ll[l].prices)]
                      ELSE players[q]]
              /\ auditLog' = createAuditLog(auditLog, "GAME_LAUNCHED", g)
         ELSE UNCHANGED <<games, players, auditLog>>
  /\ lpc' = [lpc EXCEPT ![l] = "done"]
  /\ ll' = [ll EXCEPT ![l] = LLInit]
  /\ UNCHANGED <<results, leaderboard, users, priceSnapshots, storedQuotes, now, spc, sq, sl,
                 cpc, jpc, jl, vpc, vl, gpc, gl, faults, commits, completed>>

\* ------------------------------------------------------------ createGame
\* generatePlayerId(): an id no player document has
FreshPlayerId(ps) ==
  SelectSeqBy(PlayerOrder, {q \in PlayerIds : ~ps[q].exists})[1]

\* one iteration of the loop that generates the game code: the code g is
\* kept when no game document has it, otherwise the loop draws another one
createGame_Check(k, g) ==
  /\ cpc[k] = "idle"
  /\ cpc' = [cpc EXCEPT ![k] = IF games[g].exists THEN "idle" ELSE g]
  /\ UNCHANGED <<db, now, spc, sq, sl, lpc, ll, jpc, jl, vpc, vl, gpc, gl, faults, commits, completed>>

\* batch.set(games/<code>, gameData), batch.set(players/<id>, playerData),
\* await batch.commit(), createAuditLog('GAME_CREATED'): set() replaces
\* whatever document has the code by then
createGame_Set(k) ==
  /\ cpc[k] \in Games
  /\ LET g == cpc[k]
         playerId == FreshPlayerId(players)
     IN  /\ games' = [games EXCEPT ![g] = GameDoc("DRAFT", Null, Null, Null, {}, 1)]
         /\ players' = [players EXCEPT ![playerId] =
                          PlayerDoc(playerId, g, Creator, FALSE, <<>>, Null)]
         /\ auditLog' = createAuditLog(auditLog, "GAME_CREATED", g)
  /\ cpc' = [cpc EXCEPT ![k] = "idle"]
  /\ UNCHANGED <<results, leaderboard, users, priceSnapshots, storedQuotes, now, spc, sq, sl,
                 lpc, ll, faults, commits, completed, jpc, jl, vpc, vl, gpc, gl>>

\* time passes
\* ------------------------------------------------------- price snapshots
\* the prices fetchStockQuote / fetchBatchQuotes return
Quotes == {1, 3}

\* set() of a snapshot document {ticker, date, price, previousClose,
\* currency, capturedAt}: it replaces the document, and has no closePrice
SetSnapshot(closePrices, key) == [closePrices EXCEPT ![key] = 0]

\* storePriceSnapshot({ticker}) of an authenticated caller, for today
storePriceSnapshot(t, price) ==
  /\ priceSnapshots' = SetSnapshot(priceSnapshots, <<"END", t>>)
  /\ storedQuotes' = [storedQuotes EXCEPT ![<<"END", t>>] = price]
  /\ UNCHANGED <<games, players, results, leaderboard, users, auditLog, now,
                 spc, sq, sl, lpc, ll, cpc, jpc, jl, vpc, vl, gpc, gl, faults, commits, completed>>

\* the tickers of the portfolios of the players of the LIVE games
ActiveTickers ==
  UNION {TickersOf(PlayersOf(g)) :
           g \in {h \in Games : games[h].exists /\ games[h].status = "LIVE"}}

\* dailyPriceSnapshot: one batch with a document for every ticker of a LIVE
\* game whose quote was fetched (fetched), none for the others
dailyPriceSnapshot(fetched, price) ==
  /\ ActiveTickers # {}
  /\ fetched \subseteq ActiveTickers
  /\ priceSnapshots' =
       [k \in Days \X Tickers |->
          IF k[1] = "END" /\ k[2] \in fetched THEN 0 ELSE priceSnapshots[k]]
  /\ storedQuotes' =
       [k \in Days \X Tickers |->
          IF k[1] = "END" /\ k[2] \in fetched THEN price ELSE storedQuotes[k]]
  /\ UNCHANGED <<games, players, results, leaderboard, users, auditLog, now,
                 spc, sq, sl, lpc, ll, cpc, jpc, jl, vpc, vl, gpc, gl, faults, commits, completed>>

\* -------------------------------------------------------------- joinGame
\* the checks of joinGame on the game document it read: the error, or "pass"
JoinCheck(gameDoc) ==
  IF ~gameDoc.exists THEN "not-found"
  ELSE IF gameDoc.status # "DRAFT" THEN "failed-precondition"
  ELSE IF gameDoc.playerCount >= gameDoc.maxPlayers THEN "resource-exhausted"
  ELSE "pass"

\* the nicknames joinGame is called with, and String.toLowerCase on the
\* nicknames of the model
Nicknames == {"Ann", "ANN", "Bob"}

toLowerCase(nickname) ==
  IF nickname \in {"Ann", "ANN"} THEN "ann"
  ELSE IF nickname = "Bob" THEN "bob"
  ELSE nickname

JLInit == [game |-> "none", nickname |-> "none", outcome |-> "none"]

\* the locals once joinGame has returned ("joined") or thrown (the error)
Joined(outcome) == [JLInit EXCEPT !.outcome = outcome]

\* const gameDoc = await gameRef.get() and the status / capacity checks
joinGame_Get(j, g, nickname) ==
  /\ jpc[j] = "idle"
  /\ IF JoinCheck(games[g]) = "pass"
     THEN /\ jpc' = [jpc EXCEPT ![j] = "players"]
          /\ jl' = [jl EXCEPT ![j] = [game |-> g, nickname |-> nickname,
                                      outcome |-> "none"]]
     ELSE /\ jpc' = [jpc EXCEPT ![j] = "done"]
          /\ jl' = [jl EXCEPT ![j] = Joined(JoinCheck(games[g]))]
  /\ UNCHANGED <<db, now, spc, sq, sl, lpc, ll, cpc, vpc, vl, gpc, gl, faults,
                 commits, completed>>

\* the nickname is taken when a player of the game has it, ignoring case
NicknameTaken(playerDocs, nickname) ==
  \E i \in 1..Len(playerDocs) :
    toLowerCase(playerDocs[i].nickname) = toLowerCase(nickname)

\* the players query and the nickname check of an unauthenticated caller
\* (userId null: the already-joined query is skipped)
joinGame_Players(j) ==
  /\ jpc[j] = "players"
  /\ IF NicknameTaken(PlayersOf(jl[j].game), jl[j].nickname)
     THEN /\ jpc' = [jpc EXCEPT ![j] = "done"]
          /\ jl' = [jl EXCEPT ![j] = Joined("already-exists")]
     ELSE /\ jpc' = [jpc EXCEPT ![j] = "tx"]
          /\ jl' = jl
  /\ UNCHANGED <<db, now, spc, sq, sl, lpc, ll, cpc, vpc, vl, gpc, gl, faults,
                 commits, completed>>

\* a transaction that does not repeat the capacity check
TxFull_Never(freshGame) == FALSE

\* the check of the transaction on the fresh game document
TxFull(freshGame) == freshGame.playerCount >= freshGame.maxPlayers

\* db.runTransaction: the fresh game document is checked for capacity only,
\* the player is set and playerCount incremented; then the audit log entry
joinGame_Tx(j) ==
  /\ jpc[j] = "tx"
  /\ LET g == jl[j].game
         playerId == FreshPlayerId(players)
     IN  IF TxFull(games[g])
         THEN /\ jl' = [jl EXCEPT ![j] = Joined("resource-exhausted/tx")]
              /\ UNCHANGED <<games, players, auditLog>>
         ELSE /\ players' = [players EXCEPT ![playerId] =
                              [PlayerDoc(playerId, g, Anonymous, FALSE, <<>>, Null)
                                 EXCEPT !.nickname = jl[j].nickname]]
              /\ games' = [games EXCEPT ![g].playerCount = @ + 1]
              /\ auditLog' = createAuditLog(auditLog, "GAME_JOINED", g)
              /\ jl' = [jl EXCEPT ![j] = Joined("joined")]
  /\ jpc' = [jpc EXCEPT ![j] = "done"]
  /\ UNCHANGED <<results, leaderboard, users, priceSnapshots, storedQuotes,
                 now, spc, sq, sl, lpc, ll, cpc, vpc, vl, gpc, gl, faults,
                 commits, completed>>

\* ------------------------------------------------------------- leaveGame
VLInit == [playerId |-> "none", gameCode |-> "none"]

\* the checks of leaveGame on the player and game documents it read: the
\* error, or "pass"; game.status of a missing game document is a TypeError
LeaveCheck(playerDoc, gameDocs) ==
  IF ~playerDoc.exists THEN "not-found"
  ELSE IF ~gameDocs[playerDoc.gameCode].exists THEN "TypeError"
  ELSE IF gameDocs[playerDoc.gameCode].status # "DRAFT" THEN "failed-precondition"
  ELSE IF playerDoc.userId = gameDocs[playerDoc.gameCode].creatorId
  THEN "failed-precondition"
  ELSE "pass"

\* playerRef.get(), gameRef.get() and the checks (nothing another operation
\* writes between the two reads changes the outcome of the checks)
leaveGame_Get(v, q) ==
  /\ vpc[v] = "idle"
  /\ IF LeaveCheck(players[q], games) = "pass"
     THEN /\ vpc' = [vpc EXCEPT ![v] = "commit"]
          /\ vl' = [vl EXCEPT ![v] = [playerId |-> q,
                                      gameCode |-> players[q].gameCode]]
     ELSE /\ vpc' = [vpc EXCEPT ![v] = "done"]
          /\ vl' = vl
  /\ UNCHANGED <<db, now, spc, sq, sl, lpc, ll, cpc, jpc, jl, gpc, gl, faults,
                 commits, completed>>

\* batch.delete(playerRef), batch.update(gameRef, {playerCount:
\* increment(-1)}), await batch.commit(): delete has no precondition (the
\* count is decremented whether or not the player document is still there),
\* update rejects the batch when the game document is missing; then the
\* audit log
leaveGame_Commit(v) ==
  /\ vpc[v] = "commit"
  /\ LET g == vl[v].gameCode
         q == vl[v].playerId
     IN  IF games[g].exists
         THEN /\ players' = [players EXCEPT ![q] = NoDoc]
              /\ games' = [games EXCEPT ![g].playerCount = @ - 1]
              /\ auditLog' = createAuditLog(auditLog, "GAME_LEFT", g)
         ELSE UNCHANGED <<games, players, auditLog>>
  /\ vpc' = [vpc EXCEPT ![v] = "done"]
  /\ vl' = [vl EXCEPT ![v] = VLInit]
  /\ UNCHANGED <<results, leaderboard, users, priceSnapshots, storedQuotes,
                 now, spc, sq, sl, lpc, ll, cpc, jpc, jl, gpc, gl, faults,
                 commits, completed>>

\* --------------------------------------------------------- getGamePlayers
GLInit == [game |-> "none", status |-> "none", response |-> Null]

\* what getGamePlayers returns for one player document
PlayerView(status, player) ==
  IF status = "DRAFT"
  THEN [playerId |-> player.playerId, userId |-> player.userId,
        nickname |-> player.nickname, isReady |-> player.isReady,
        portfolioCount |-> Len(player.portfolio)]
  ELSE [playerId |-> player.playerId, userId |-> player.userId,
        nickname |-> player.nickname, isReady |-> player.isReady,
        portfolio |-> player.portfolio, totalBudget |-> TOTAL_BUDGET]

\* a response that shows the portfolios whatever the status
GamePlayersResponse_Open(status, playerDocs) ==
  [status |-> status,
   players |-> [i \in 1..Len(playerDocs) |-> PlayerView("LIVE", playerDocs[i])],
   portfoliosVisible |-> status # "DRAFT"]

\* the data of the response of getGamePlayers
GamePlayersResponse(status, playerDocs) ==
  [status |-> status,
   players |-> [i \in 1..Len(playerDocs) |-> PlayerView(status, playerDocs[i])],
   portfoliosVisible |-> status # "DRAFT"]

\* const gameDoc = await db.collection('games').doc(gameCode).get()
getGamePlayers_Get(w, g) ==
  /\ gpc[w] = "idle"
  /\ IF games[g].exists
     THEN /\ gpc' = [gpc EXCEPT ![w] = "players"]
          /\ gl' = [gl EXCEPT ![w] = [game |-> g, status |-> games[g].status,
                                      response |-> Null]]
     ELSE /\ gpc' = [gpc EXCEPT ![w] = "done"]
          /\ gl' = gl
  /\ UNCHANGED <<db, now, spc, sq, sl, lpc, ll, cpc, jpc, jl, vpc, vl, faults,
                 commits, completed>>

\* the players query and the response
getGamePlayers_Players(w) ==
  /\ gpc[w] = "players"
  /\ gl' = [gl EXCEPT ![w].response =
              GamePlayersResponse(gl[w].status, PlayersOf(gl[w].game))]
  /\ gpc' = [gpc EXCEPT ![w] = "returned"]
  /\ UNCHANGED <<db, now, spc, sq, sl, lpc, ll, cpc, jpc, jl, vpc, vl, faults,
                 commits, completed>>

Tick ==
  /\ now < MaxTime
  /\ now' = now + 1
  /\ UNCHANGED <<db, spc, sq, sl, lpc, ll, cpc, jpc, jl, vpc, vl, gpc, gl, faults, commits, completed>>

\* ------------------------------------------------- settlement of two games
\* two launched games: G1 with two linked players, G2 with a linked and an
\* anonymous player; T2 has no snapshot for today, so its final price is a mock
LaunchPrice == 2

\* the documents and invocations every specification starts from
InitDocs ==
  /\ users = [u \in Users |-> [exists |-> TRUE, stats |-> defaultStats]]
  /\ auditLog = [k \in AuditActions \X Games |-> 0]
  /\ results = [q \in PlayerIds |-> NoDoc]
  /\ leaderboard = [q \in PlayerIds |-> NoDoc]
  /\ now = 0
  /\ sq = [p \in Runs |-> <<>>]
  /\ sl = [p \in Settlers |-> SLInit]
  /\ ll = [p \in Launchers |-> LLInit]
  /\ commits = [g \in Games |-> 0]
  /\ completed = [g \in Games |-> FALSE]
  /\ storedQuotes = [k \in Days \X Tickers |-> 0]
  /\ jl = [j \in Joiners |-> JLInit]
  /\ vl = [v \in Leavers |-> VLInit]
  /\ gl = [w \in Viewers |-> GLInit]

InitStore ==
  /\ InitDocs
  /\ priceSnapshots =
       [k \in Days \X Tickers |->
          CASE k = <<"END", "T1">> -> 3
            [] k = <<"END", "T2">> -> 0
            [] k = <<"END", "T3">> -> 2
            [] k = <<"END", "T4">> -> 1
            [] k = <<"J1", "T4">> -> 0
            [] OTHER -> LaunchPrice]

\* a game launched at time 0 whose ready players hold the given tickers
LiveGame(tickers) ==
  GameDoc("LIVE", 0, GameDuration,
          [t \in tickers |-> LaunchPrice], tickers, 2)

\* two LIVE games of two players each
InitLive ==
  /\ InitStore
  /\ games = [g \in Games |-> IF g = "G1" THEN LiveGame({"T1", "T3", "T4"})
                              ELSE LiveGame({"T1", "T2", "T3"})]
  /\ players =
       [q \in PlayerIds |->
          CASE q = "P1" -> PlayerDoc(q, "G1", "U1", TRUE,
                 Portfolio(<<"T1", "T3", "T4">>, <<5000, 3000, 2000>>, LaunchPrice), 0)
            [] q = "P2" -> PlayerDoc(q, "G1", "U2", TRUE,
                 Portfolio(<<"T1", "T3", "T4">>, <<1000, 8000, 1000>>, LaunchPrice), 0)
            [] q = "P3" -> PlayerDoc(q, "G2", "U1", TRUE,
                 Portfolio(<<"T1", "T2", "T3">>, <<4000, 3000, 3000>>, LaunchPrice), 0)
            [] q = "P4" -> PlayerDoc(q, "G2", Anonymous, TRUE,
                 Portfolio(<<"T1", "T2", "T3">>, <<1000, 8000, 1000>>, LaunchPrice), 0)
            [] OTHER -> NoDoc]

Init ==
  /\ InitLive
  /\ faults = 0
  /\ spc = [p \in Settlers |-> IF p \in {"R1", "F1"} THEN "idle" ELSE "off"]
  /\ lpc = [p \in Launchers |-> "off"]
  /\ cpc = [p \in Creators |-> "off"]
  /\ jpc = [j \in Joiners |-> "off"]
  /\ vpc = [v \in Leavers |-> "off"]
  /\ gpc = [w \in Viewers |-> "off"]

Next ==
  \/ \E p \in Runs : processGameEnds(p)
  \/ \E p \in Runs : NextGame(p)
  \/ \E p \in Runs : processGameEnds_Settled(p)
  \/ \E p \in Forcers, g \in Games : forceSettleGame(p, g)
  \/ \E p \in Forcers : forceSettleGame_End(p)
  \/ \E p \in Settlers : settleGame_Get(p)
  \/ \E p \in Settlers : settleGame_Check(p)
  \/ \E p \in Settlers : settleGame_Compute(p)
  \/ \E p \in Settlers : settleGame_Commit(p)
  \/ \E p \in Settlers : updateUserStats_Read(p)
  \/ \E p \in Settlers : updateUserStats_Update(p)
  \/ \E p \in Settlers : updateUserStats_Fail(p)
  \/ \E p \in Settlers : settleGame_Audit(p)
  \/ Tick

Spec == Init /\ [][Next]_vars

\* ------------------------------------------------ one game from its draft
\* a position as submitted: no price is frozen before the launch
DraftPortfolio(tickers, budgets) == Portfolio(tickers, budgets, 0)

\* G1 in DRAFT with its creator and an anonymous second player, both ready;
\* no store operation is rejected
InitDraft ==
  /\ InitStore
  /\ faults = MaxFaults
  /\ games = [g \in Games |->
                IF g = "G1" THEN GameDoc("DRAFT", Null, Null, Null, {}, 2)
                ELSE NoDoc]
  /\ players =
       [q \in PlayerIds |->
          CASE q = "P1" -> PlayerDoc(q, "G1", "U1", TRUE,
                 DraftPortfolio(<<"T1", "T3", "T4">>, <<5000, 3000, 2000>>), 0)
            [] q = "P2" -> PlayerDoc(q, "G1", Anonymous, TRUE,
                 DraftPortfolio(<<"T1", "T3", "T4">>, <<1000, 8000, 1000>>), 0)
            [] OTHER -> NoDoc]

\* the steps of settleGame and of the functions it calls
SettleSteps ==
  \/ \E p \in Settlers : settleGame_Get(p)
  \/ \E p \in Settlers : settleGame_Check(p)
  \/ \E p \in Settlers : settleGame_Compute(p)
  \/ \E p \in Settlers : settleGame_Commit(p)
  \/ \E p \in Settlers : updateUserStats_Read(p)
  \/ \E p \in Settlers : updateUserStats_Update(p)
  \/ \E p \in Settlers : settleGame_Audit(p)

\* two launchGame calls of the creator, the scheduled trigger and one
\* forceSettleGame caller
InitLife ==
  /\ InitDraft
  /\ spc = [p \in Settlers |-> IF p \in {"R1", "F1"} THEN "idle" ELSE "off"]
  /\ lpc = [p \in Launchers |-> "idle"]
  /\ cpc = [p \in Creators |-> "off"]
  /\ jpc = [j \in Joiners |-> "off"]
  /\ vpc = [v \in Leavers |-> "off"]
  /\ gpc = [w \in Viewers |-> "off"]

NextLife ==
  \/ \E l \in Launchers, g \in Games : launchGame_Get(l, g)
  \/ \E l \in Launchers : launchGame_Players(l)
  \/ \E l \in Launchers : launchGame_Commit(l)
  \/ \E p \in Settlers : processGameEnds(p)
  \/ \E p \in Settlers : NextGame(p)
  \/ \E p \in Settlers : processGameEnds_Settled(p)
  \/ \E p \in Settlers, g \in Games : forceSettleGame(p, g)
  \/ \E p \in Settlers : forceSettleGame_End(p)
  \/ SettleSteps
  \/ Tick

SpecLife == InitLife /\ [][NextLife]_vars

\* a createGame call whose loop drew the code of G1 and read that no game
\* had it, before the call that created G1 committed; one launchGame call
\* and one forceSettleGame caller
InitCreate ==
  /\ InitDraft
  /\ spc = [p \in Settlers |-> IF p = "F1" THEN "idle" ELSE "off"]
  /\ lpc = [p \in Launchers |-> IF p = "L1" THEN "idle" ELSE "off"]
  /\ cpc = [p \in Creators |-> "G1"]
  /\ jpc = [j \in Joiners |-> "off"]
  /\ vpc = [v \in Leavers |-> "off"]
  /\ gpc = [w \in Viewers |-> "off"]

NextCreate ==
  \/ \E k \in Creators, g \in Games : createGame_Check(k, g)
  \/ \E k \in Creators : createGame_Set(k)
  \/ \E l \in Launchers, g \in Games : launchGame_Get(l, g)
  \/ \E l \in Launchers : launchGame_Players(l)
  \/ \E l \in Launchers : launchGame_Commit(l)
  \/ \E p \in Settlers, g \in Games : forceSettleGame(p, g)
  \/ \E p \in Settlers : forceSettleGame_End(p)
  \/ SettleSteps
  \/ Tick

SpecCreate == InitCreate /\ [][NextCreate]_vars

\* ------------------------------------------ a join that races the launch
\* G1 in DRAFT; the creator launches it while an unauthenticated visitor
\* joins; the scheduled trigger settles the games that are due
InitJoin ==
  /\ InitDraft
  /\ spc = [p \in Settlers |-> IF p = "R1" THEN "idle" ELSE "off"]
  /\ lpc = [p \in Launchers |-> IF p = "L1" THEN "idle" ELSE "off"]
  /\ cpc = [p \in Creators |-> "off"]
  /\ jpc = [j \in Joiners |-> IF j = "J1" THEN "idle" ELSE "off"]
  /\ vpc = [v \in Leavers |-> "off"]
  /\ gpc = [w \in Viewers |-> "off"]

NextJoin ==
  \/ \E j \in Joiners, g \in Games, nickname \in Nicknames :
       joinGame_Get(j, g, nickname)
  \/ \E j \in Joiners : joinGame_Players(j)
  \/ \E j \in Joiners : joinGame_Tx(j)
  \/ \E l \in Launchers, g \in Games : launchGame_Get(l, g)
  \/ \E l \in Launchers : launchGame_Players(l)
  \/ \E l \in Launchers : launchGame_Commit(l)
  \/ \E p \in Runs : processGameEnds(p)
  \/ \E p \in Runs : NextGame(p)
  \/ \E p \in Runs : processGameEnds_Settled(p)
  \/ SettleSteps
  \/ Tick

\* the schedule fires again and again and every started invocation of the
\* trigger runs on; no store operation is rejected (faults = MaxFaults).
\* settleGame_Compute is the only step that leaves the position "players"
\* and it is enabled there: weak fairness on it is written as the
\* invocation not staying at "players" for ever
FairTrigger ==
  /\ \A p \in Runs : WF_vars(processGameEnds(p))
  /\ \A p \in Runs : WF_vars(NextGame(p))
  /\ \A p \in Runs : WF_vars(processGameEnds_Settled(p))
  /\ \A p \in Runs : WF_vars(settleGame_Get(p))
  /\ \A p \in Runs : WF_vars(settleGame_Check(p))
  /\ \A p \in Runs : []<>(spc[p] # "players")
  /\ \A p \in Runs : WF_vars(settleGame_Commit(p))
  /\ \A p \in Runs : WF_vars(updateUserStats_Read(p))
  /\ \A p \in Runs : WF_vars(updateUserStats_Update(p))
  /\ \A p \in Runs : WF_vars(settleGame_Audit(p))

SpecJoin == InitJoin /\ [][NextJoin]_vars /\ FairTrigger

\* --------------------------------------------------- the lobby of a game
\* maxPlayers of the game of the lobby (MAX_PLAYERS scaled down, so that
\* the game fills up)
LobbyCapacity == 3

\* G1 in DRAFT with its creator and a second player, one place left; calls
\* of createGame, joinGame (two), leaveGame (two) and launchGame
InitLobby ==
  /\ InitStore
  /\ faults = MaxFaults
  /\ games = [g \in Games |->
                IF g = "G1"
                THEN [GameDoc("DRAFT", Null, Null, Null, {}, 2)
                        EXCEPT !.maxPlayers = LobbyCapacity]
                ELSE NoDoc]
  /\ players =
       [q \in PlayerIds |->
          CASE q = "P1" -> PlayerDoc(q, "G1", "U1", TRUE,
                 DraftPortfolio(<<"T1", "T3", "T4">>, <<5000, 3000, 2000>>), 0)
            [] q = "P2" -> PlayerDoc(q, "G1", Anonymous, TRUE,
                 DraftPortfolio(<<"T1", "T3", "T4">>, <<1000, 8000, 1000>>), 0)
            [] OTHER -> NoDoc]
  /\ spc = [p \in Settlers |-> "off"]
  /\ lpc = [p \in Launchers |-> IF p = "L1" THEN "idle" ELSE "off"]
  /\ cpc = [p \in Creators |-> "idle"]
  /\ jpc = [j \in Joiners |-> "idle"]
  /\ vpc = [v \in Leavers |-> "idle"]
  /\ gpc = [w \in Viewers |-> "off"]

NextLobby ==
  \/ \E k \in Creators, g \in Games : createGame_Check(k, g)
  \/ \E k \in Creators : createGame_Set(k)
  \/ \E j \in Joiners, g \in Games, nickname \in Nicknames :
       joinGame_Get(j, g, nickname)
  \/ \E j \in Joiners : joinGame_Players(j)
  \/ \E j \in Joiners : joinGame_Tx(j)
  \/ \E v \in Leavers, q \in PlayerIds : leaveGame_Get(v, q)
  \/ \E v \in Leavers : leaveGame_Commit(v)
  \/ \E l \in Launchers, g \in Games : launchGame_Get(l, g)
  \/ \E l \in Launchers : launchGame_Players(l)
  \/ \E l \in Launchers : launchGame_Commit(l)

SpecLobby == InitLobby /\ [][NextLobby]_vars

\* ---------------------------------------------- the players of a game read
\* the budgets the second player of G1 submitted
ViewBudgets == {<<1000, 8000, 1000>>, <<4000, 3000, 3000>>}

\* G1 in DRAFT with two ready players; getGamePlayers is called while a
\* player joins and the creator launches the game
InitView ==
  /\ InitStore
  /\ faults = MaxFaults
  /\ games = [g \in Games |->
                IF g = "G1" THEN GameDoc("DRAFT", Null, Null, Null, {}, 2)
                ELSE NoDoc]
  /\ \E budgets \in ViewBudgets :
       players =
         [q \in PlayerIds |->
            CASE q = "P1" -> PlayerDoc(q, "G1", "U1", TRUE,
                   DraftPortfolio(<<"T1", "T3", "T4">>, <<5000, 3000, 2000>>), 0)
              [] q = "P2" -> PlayerDoc(q, "G1", Anonymous, TRUE,
                   DraftPortfolio(<<"T1", "T2", "T3">>, budgets), 0)
              [] OTHER -> NoDoc]
  /\ spc = [p \in Settlers |-> "off"]
  /\ lpc = [p \in Launchers |-> IF p = "L1" THEN "idle" ELSE "off"]
  /\ cpc = [p \in Creators |-> "off"]
  /\ jpc = [j \in Joiners |-> IF j = "J1" THEN "idle" ELSE "off"]
  /\ vpc = [v \in Leavers |-> "off"]
  /\ gpc = [w \in Viewers |-> "idle"]

NextView ==
  \/ \E w \in Viewers, g \in Games : getGamePlayers_Get(w, g)
  \/ \E w \in Viewers : getGamePlayers_Players(w)
  \/ \E j \in Joiners, g \in Games, nickname \in Nicknames :
       joinGame_Get(j, g, nickname)
  \/ \E j \in Joiners : joinGame_Players(j)
  \/ \E j \in Joiners : joinGame_Tx(j)
  \/ \E l \in Launchers, g \in Games : launchGame_Get(l, g)
  \/ \E l \in Launchers : launchGame_Players(l)
  \/ \E l \in Launchers : launchGame_Commit(l)

SpecView == InitView /\ [][NextView]_vars

\* ------------------------------------ snapshots stored before settlement
\* the tickers storePriceSnapshot is called for
StoredTickers == {"T1", "T3"}

\* the LIVE game G1; prices are stored for the settlement day while the
\* creator settles the game with forceSettleGame
InitSnapshot ==
  /\ InitStore
  /\ faults = MaxFaults
  /\ games = [g \in Games |-> IF g = "G1" THEN LiveGame({"T1", "T3", "T4"})
                              ELSE NoDoc]
  /\ players =
       [q \in PlayerIds |->
          CASE q = "P1" -> PlayerDoc(q, "G1", "U1", TRUE,
                 Portfolio(<<"T1", "T3", "T4">>, <<5000, 3000, 2000>>, LaunchPrice), 0)
            [] q = "P2" -> PlayerDoc(q, "G1", "U2", TRUE,
                 Portfolio(<<"T1", "T3", "T4">>, <<1000, 8000, 1000>>, LaunchPrice), 0)
            [] OTHER -> NoDoc]
  /\ spc = [p \in Settlers |-> IF p = "F1" THEN "idle" ELSE "off"]
  /\ lpc = [p \in Launchers |-> "off"]
  /\ cpc = [p \in Creators |-> "off"]
  /\ jpc = [j \in Joiners |-> "off"]
  /\ vpc = [v \in Leavers |-> "off"]
  /\ gpc = [w \in Viewers |-> "off"]

NextSnapshot ==
  \/ \E t \in StoredTickers, price \in Quotes : storePriceSnapshot(t, price)
  \/ \E fetched \in SUBSET Tickers, price \in Quotes :
       dailyPriceSnapshot(fetched, price)
  \/ \E p \in Forcers, g \in Games : forceSettleGame(p, g)
  \/ \E p \in Forcers : forceSettleGame_End(p)
  \/ SettleSteps

SpecSnapshot == InitSnapshot /\ [][NextSnapshot]_vars

\* --------------------------------------- forceSettleGame by any caller
\* the two LIVE games; forceSettleGame is called by the creator (F1), by
\* another user (F2) and without authentication (F3); no store operation
\* is rejected and the trigger does not run
InitForce ==
  /\ InitLive
  /\ faults = MaxFaults
  /\ spc = [p \in Settlers |-> IF p \in Forcers THEN "idle" ELSE "off"]
  /\ lpc = [p \in Launchers |-> "off"]
  /\ cpc = [p \in Creators |-> "off"]
  /\ jpc = [j \in Joiners |-> "off"]
  /\ vpc = [v \in Leavers |-> "off"]
  /\ gpc = [w \in Viewers |-> "off"]

NextForce ==
  \/ \E p \in Settlers, g \in Games : forceSettleGame(p, g)
  \/ \E p \in Settlers : forceSettleGame_End(p)
  \/ SettleSteps

SpecForce == InitForce /\ [][NextForce]_vars

\* ------------------------------------- settlement over drawn portfolios
\* the J-1 prices frozen at the launch of the game
ComputePrices == [t \in {"T1", "T3", "T4", "T5"} |-> IF t = "T1" THEN 400 ELSE 2]

\* the portfolios a player may have submitted: three tickers and their
\* budgets (each adds up to TOTAL_BUDGET)
ComputeBudgets ==
  {<<<<"T1", "T3", "T5">>, <<4000, 3000, 3000>>>>,
   <<<<"T1", "T3", "T5">>, <<4001, 3000, 2999>>>>,
   <<<<"T1", "T3", "T5">>, <<500, 9000, 500>>>>,
   <<<<"T1", "T4", "T3">>, <<4000, 3000, 3000>>>>,
   <<<<"T1", "T4", "T3">>, <<1000, 8000, 1000>>>>}

\* the players of the game: one, two or three
Lineups == {{"P1"}, {"P1", "P2"}, {"P1", "P2", "P3"}}

SubmitTimes == {0, 1}

\* the snapshots of the settlement day: closePrice of T1, T3 and T5 (0: no
\* document; T3 is then given a mock price, T5 is not a known stock); T4
\* has doubled
EndSnapshots(a, b, c) ==
  [k \in Days \X Tickers |->
     CASE k = <<"END", "T1">> -> a
       [] k = <<"END", "T3">> -> b
       [] k = <<"END", "T4">> -> 2 * LaunchPrice
       [] k = <<"END", "T5">> -> c
       [] OTHER -> LaunchPrice]

ComputePortfolio(choice) ==
  [k \in 1..3 |->
     Position(choice[1][k], choice[2][k], ComputePrices[choice[1][k]])]

\* one LIVE game whose players, portfolios, submission times and final
\* prices are drawn; the creator settles it with forceSettleGame
InitCompute ==
  /\ InitDocs
  /\ faults = MaxFaults
  /\ priceSnapshots \in {EndSnapshots(a, b, c) :
                           a \in {401, 200}, b \in {0, 1}, c \in {0, 1}}
  /\ \E lineup \in Lineups :
       \E budgets \in [lineup -> ComputeBudgets], times \in [lineup -> SubmitTimes] :
         LET held == {budgets[q][1][k] : q \in lineup, k \in 1..3}
         IN  /\ games = [g \in Games |->
                           IF g = "G1"
                           THEN GameDoc("LIVE", 0, GameDuration,
                                        [t \in held |-> ComputePrices[t]],
                                        held, Cardinality(lineup))
                           ELSE NoDoc]
             /\ players =
                  [q \in PlayerIds |->
                     IF q \in lineup
                     THEN PlayerDoc(q, "G1",
                            CASE q = "P1" -> "U1" [] q = "P2" -> "U2" [] OTHER -> Anonymous,
                            TRUE, ComputePortfolio(budgets[q]), times[q])
                     ELSE NoDoc]
  /\ spc = [p \in Settlers |-> IF p = "F1" THEN "idle" ELSE "off"]
  /\ lpc = [p \in Launchers |-> "off"]
  /\ cpc = [p \in Creators |-> "off"]
  /\ jpc = [j \in Joiners |-> "off"]
  /\ vpc = [v \in Leavers |-> "off"]
  /\ gpc = [w \in Viewers |-> "off"]

SpecCompute == InitCompute /\ [][NextForce]_vars

\* ------------------------------------- settlement of a three-player game
\* each player holds one position with the whole budget: P1 on T1 (100 to
\* 150), P2 on T2 (100 to 90), P3 on T3 (200 to 200)
ExamplePrices == [t \in {"T1", "T2", "T3"} |-> IF t = "T3" THEN 200 ELSE 100]

ExampleSnapshots ==
  [k \in Days \X Tickers |->
     CASE k = <<"END", "T1">> -> 150
       [] k = <<"END", "T2">> -> 90
       [] k = <<"END", "T3">> -> 200
       [] OTHER -> LaunchPrice]

ExampleTicker(q) ==
  CASE q = "P1" -> "T1" [] q = "P2" -> "T2" [] OTHER -> "T3"

InitExample ==
  /\ InitDocs
  /\ faults = MaxFaults
  /\ priceSnapshots = ExampleSnapshots
  /\ games = [g \in Games |->
                IF g = "G1"
                THEN GameDoc("LIVE", 0, GameDuration, ExamplePrices,
                             DOMAIN ExamplePrices, 3)
                ELSE NoDoc]
  /\ \E times \in [{"P1", "P2", "P3"} -> SubmitTimes] :
       \E linked \in [{"P1", "P2", "P3"} -> {"U1", "U2", Anonymous}] :
         players =
           [q \in PlayerIds |->
              IF q \in DOMAIN times
              THEN PlayerDoc(q, "G1", linked[q], TRUE,
                     <<Position(ExampleTicker(q), TOTAL_BUDGET,
                                ExamplePrices[ExampleTicker(q)])>>,
                     times[q])
              ELSE NoDoc]
  /\ spc = [p \in Settlers |-> IF p = "F1" THEN "idle" ELSE "off"]
  /\ lpc = [p \in Launchers |-> "off"]
  /\ cpc = [p \in Creators |-> "off"]
  /\ jpc = [j \in Joiners |-> "off"]
  /\ vpc = [v \in Leavers |-> "off"]
  /\ gpc = [w \in Viewers |-> "off"]

SpecExample == InitExample /\ [][NextForce]_vars

\* =================================================================== claims
\* positions of settleGame after its two guards
PastGuards == {"players", "commit", "stats", "stats_w", "audit"}

HasAllResults(g) ==
  \A q \in PlayerIds :
    players[q].exists /\ players[q].gameCode = g =>
      results[q].exists /\ leaderboard[q].exists

\* C1: across all interleavings of settlement invocations, the settlement
\* batch of a game commits at most once
C1_CommitsAtMostOnce == \A g \in Games : commits[g] <= 1

\* C2: a settleGame call that starts after an earlier call for the same game
\* has returned is a no-op: it stops at the guards and writes nothing
C2_SecondSettleIsNoop ==
  \A p \in Settlers :
    sl[p].afterDone => spc[p] \in {"check", "returned"} /\ ~sl[p].wrote

C2_Witness ==
  \E p \in Settlers :
    sl[p].afterDone /\ spc[p] = "returned" /\ sl[p].outcome = "noop"

\* C3: all-or-nothing: if a Result or LeaderboardEntry of a game exists the
\* game is ENDED, and every player of an ENDED game has both documents
C3_AllOrNothing ==
  \A g \in Games :
    /\ ResultsOf(g) # {} \/ LeaderboardOf(g) # {} => games[g].status = "ENDED"
    /\ games[g].exists /\ games[g].status = "ENDED" => HasAllResults(g)

\* C4: a settleGame call that reads a status other than LIVE (DRAFT or
\* ENDED) never gets past its guards
C4_NonLiveAborts ==
  \A p \in Settlers : spc[p] \in PastGuards => sl[p].status = "LIVE"

\* the state a settleGame call that threw at or before batch.commit()
\* leaves when no other batch of the game has committed
C5_NothingWritten ==
  \A p \in Settlers :
    LET g == sl[p].game
    IN  spc[p] = "threw" /\ sl[p].outcome = "threw" /\ ~sl[p].wrote
          /\ commits[g] = 0 =>
          /\ ResultsOf(g) = {} /\ LeaderboardOf(g) = {}
          /\ games[g].status = "LIVE"
          /\ (games[g].endDate <= now => g \in GamesToSettle(games, now))

\* C5: the step in which settleGame throws at or before batch.commit()
\* writes no Result, no LeaderboardEntry and no game; with no other batch of
\* the game committed, the game then has no Result and no LeaderboardEntry
\* and is still LIVE, so the trigger finds it again
C5_FailedCommitWritesNothing ==
  /\ []C5_NothingWritten
  /\ [][\A p \in Settlers :
          spc[p] \in {"players", "commit"} /\ spc'[p] = "threw" =>
            UNCHANGED <<results, leaderboard, games>>]_vars

C5_Witness ==
  \E p \in Settlers :
    /\ spc[p] = "threw" /\ sl[p].outcome = "threw" /\ ~sl[p].wrote
    /\ commits[sl[p].game] = 0
    /\ sl[p].game \in GamesToSettle(games, now)

\* C6: the status of a game only moves forward: it stays, or goes from DRAFT
\* to LIVE, or from LIVE to ENDED
C6_StatusForwardOnly ==
  [][\A g \in Games :
       games[g].exists =>
         /\ games'[g].exists
         /\ \/ games'[g].status = games[g].status
            \/ games[g].status = "DRAFT" /\ games'[g].status = "LIVE"
            \/ games[g].status = "LIVE" /\ games'[g].status = "ENDED"]_vars

\* C7: once set, initialPricesSnapshot of a game never changes
C7_SnapshotImmutable ==
  [][\A g \in Games :
       games[g].exists /\ games[g].initialPricesSnapshot # Null =>
         /\ games'[g].exists
         /\ games'[g].initialPricesSnapshot = games[g].initialPricesSnapshot]_vars

\* the state a settleGame call leaves when it throws after its commit
C8_SettlementKept ==
  \A p \in Settlers :
    spc[p] = "threw" /\ sl[p].wrote =>
      /\ games[sl[p].game].status = "ENDED"
      /\ HasAllResults(sl[p].game)
      /\ ResultsOf(sl[p].game) # {}

\* C8: the step in which the statistics update fails changes no Result, no
\* LeaderboardEntry and no game; after it the Results and LeaderboardEntries
\* of all players are there and the game is ENDED: nothing is rolled back
C8_StatsFailureKeepsSettlement ==
  /\ []C8_SettlementKept
  /\ [][\A p \in Settlers :
          spc[p] \in {"stats", "stats_w"} /\ spc'[p] = "threw" =>
            UNCHANGED <<results, leaderboard, games>>]_vars

C8_Witness ==
  \E p \in Settlers :
    /\ spc[p] = "threw" /\ sl[p].wrote
    /\ games[sl[p].game].status = "ENDED"
    /\ ResultsOf(sl[p].game) # {}

\* C9: a failed statistics update of one user is only logged: a settleGame
\* call that has committed its batch never throws
C9_StatsBestEffort ==
  \A p \in Settlers : sl[p].wrote => spc[p] # "threw"

\* C10: in a run of processGameEnds every game the query returned has been
\* handed to settleGame or is still to come, whatever settleGame threw
C10_EveryGameAttempted ==
  \A p \in Runs :
    spc[p] # "idle" => sl[p].found = sl[p].attempted \cup Range(sq[p])

C10_Witness ==
  \E p \in Runs :
    /\ sl[p].threw # {}
    /\ spc[p] = "get"
    /\ sl[p].game \notin sl[p].threw

\* why a forceSettleGame call of p on game g is not authorized
Unauthorized(p, g) ==
  \/ CallerUid(p) = Anonymous
  \/ games[g].exists /\ games[g].creatorId # CallerUid(p)

AuthErrors == {"unauthenticated", "permission-denied"}

\* C11: a forceSettleGame call of a caller who is unauthenticated or is not
\* the creator of the game throws an authentication / permission error, and
\* neither the step that throws nor the return of the call changes a document
C11_UnauthorizedForceSettle ==
  [][\A p \in Forcers :
       /\ spc[p] = "idle" /\ spc'[p] # "idle" /\ Unauthorized(p, sl'[p].game) =>
            /\ spc'[p] = "threw"
            /\ sl'[p].outcome \in AuthErrors
            /\ UNCHANGED db
       /\ spc[p] = "threw" /\ sl[p].outcome \in AuthErrors /\ spc'[p] # "threw" =>
            /\ spc'[p] = "idle"
            /\ UNCHANGED db]_vars

C11_Witness ==
  /\ \E p \in Forcers :
       /\ spc[p] = "threw" /\ sl[p].outcome = "permission-denied"
       /\ games[sl[p].game].status = "LIVE"
  /\ \E p \in Forcers : spc[p] = "threw" /\ sl[p].outcome = "unauthenticated"

\* C12: a forceSettleGame call of the creator on a game that is DRAFT or
\* ENDED throws failed-precondition, and neither the step that throws nor
\* the return of the call changes a document
C12_ForceSettleNotLive ==
  [][\A p \in Forcers :
       /\ spc[p] = "idle" /\ spc'[p] # "idle"
            /\ games[sl'[p].game].exists
            /\ games[sl'[p].game].creatorId = CallerUid(p)
            /\ games[sl'[p].game].status # "LIVE" =>
            /\ spc'[p] = "threw"
            /\ sl'[p].outcome = "failed-precondition"
            /\ UNCHANGED db
       /\ spc[p] = "threw" /\ sl[p].outcome = "failed-precondition"
            /\ spc'[p] # "threw" =>
            /\ spc'[p] = "idle"
            /\ UNCHANGED db]_vars

C12_Witness ==
  \E p \in Forcers :
    /\ spc[p] = "threw" /\ sl[p].outcome = "failed-precondition"
    /\ games[sl[p].game].status = "DRAFT"

\* the results a settleGame call has computed and is about to commit
Computed == {sl[p].results : p \in {q \in Settlers : spc[q] = "commit"}}

HasAward(result, type) ==
  \E k \in 1..Len(result.awards) : result.awards[k].type = type

\* C13: after rankResults the ranks of the N results are exactly 1..N, each
\* held by one result
C13_RanksArePermutation ==
  \A rs \in Computed :
    /\ {rs[i].rank : i \in 1..Len(rs)} = 1..Len(rs)
    /\ \A i, j \in 1..Len(rs) : rs[i].rank = rs[j].rank => i = j
    /\ Len(rs) = Cardinality({q \in PlayerIds : players[q].exists
                                                 /\ players[q].gameCode = "G1"})

C13_Witness ==
  \E rs \in Computed :
    /\ Len(rs) = 3
    /\ \A i, j \in 1..3 :
         i # j => rs[i].portfolioReturnPercent # rs[j].portfolioReturnPercent

\* C14: of two results with equal portfolioReturnPercent and different
\* submittedAt, the one submitted earlier has the strictly smaller rank
C14_EarlierSubmissionWinsTie ==
  \A rs \in Computed :
    \A i, j \in 1..Len(rs) :
      /\ rs[i].portfolioReturnPercent = rs[j].portfolioReturnPercent
      /\ rs[i].submittedAt < rs[j].submittedAt
      => rs[i].rank < rs[j].rank

\* a tie won by the player who comes later in the players query
C14_Witness ==
  \E rs \in Computed :
    \E i, j \in 1..Len(rs) :
      /\ rs[i].portfolioReturnPercent = rs[j].portfolioReturnPercent
      /\ rs[i].submittedAt < rs[j].submittedAt
      /\ rs[i].playerId = "P2" /\ rs[j].playerId = "P1"

\* the unrounded portfolio return of a player under the final prices
ExactReturn(playerId, finalPrices) ==
  calculateReturn(TOTAL_BUDGET,
                  TotalFinalValue(players[playerId].portfolio, finalPrices))

\* C15: ranking uses the unrounded returns: a player whose exact portfolio
\* return is strictly greater than another's has the better rank
C15_RankByExactReturn ==
  \A p \in Settlers :
    spc[p] = "commit" =>
      \A i, j \in 1..Len(sl[p].results) :
        RatLess(ExactReturn(sl[p].results[j].playerId, sl[p].finalPrices),
                ExactReturn(sl[p].results[i].playerId, sl[p].finalPrices))
        => sl[p].results[i].rank < sl[p].results[j].rank

\* C16: DOLPHIN needs 2 participants, INTERN a last rank above 2; with one
\* participant neither is granted; the INTERN is neither WOLF nor DOLPHIN
C16_PodiumGuards ==
  \A rs \in Computed :
    \A i \in 1..Len(rs) :
      /\ HasAward(rs[i], "DOLPHIN") => Len(rs) >= 2 /\ rs[i].rank = 2
      /\ HasAward(rs[i], "INTERN") =>
           /\ rs[i].rank = Len(rs) /\ rs[i].rank > 2
           /\ ~HasAward(rs[i], "WOLF") /\ ~HasAward(rs[i], "DOLPHIN")
      /\ Len(rs) = 1 => ~HasAward(rs[i], "DOLPHIN") /\ ~HasAward(rs[i], "INTERN")

\* three participants: the second holds DOLPHIN and the third INTERN
C16_Witness ==
  \E rs \in Computed :
    /\ Len(rs) = 3
    /\ \E i \in 1..3 : HasAward(rs[i], "INTERN")
    /\ \E i \in 1..3 : HasAward(rs[i], "DOLPHIN")

\* the returns of all positions of all results
PositionReturns(rs) ==
  {rs[i].positionResults[k].returnPercent :
     i \in 1..Len(rs), k \in 1..3}

\* C17: BAG_HOLDER is granted only when the minimum position return is
\* negative, and then to a player who holds a position with that return;
\* when no position return is negative nobody receives it
C17_BagHolderOnlyNegative ==
  \A rs \in Computed :
    LET lowest == CHOOSE r \in PositionReturns(rs) :
                    \A x \in PositionReturns(rs) : r <= x
    IN  \A i \in 1..Len(rs) :
          HasAward(rs[i], "BAG_HOLDER") =>
            /\ lowest < 0
            /\ \E k \in 1..Len(rs[i].positionResults) :
                 /\ rs[i].positionResults[k].returnPercent = lowest
                 /\ \E a \in 1..Len(rs[i].awards) :
                      /\ rs[i].awards[a].type = "BAG_HOLDER"
                      /\ rs[i].awards[a].ticker = rs[i].positionResults[k].ticker
                      /\ rs[i].awards[a].value = lowest

\* no position lost and nobody holds the award
C17_Witness ==
  \E rs \in Computed :
    /\ Len(rs) >= 2
    /\ \A x \in PositionReturns(rs) : x >= 0
    /\ \E x \in PositionReturns(rs) : x = 0
    /\ \A i \in 1..Len(rs) : ~HasAward(rs[i], "BAG_HOLDER")

\* the best position return of a result
BestReturn(result) ==
  CHOOSE r \in {result.positionResults[k].returnPercent : k \in 1..3} :
    \A k \in 1..3 : result.positionResults[k].returnPercent <= r

\* C18: no what-if message at rank 1; at a rank above 1 a message if and
\* only if 1 + the number of other players whose portfolio return is above
\* the player's best position return is smaller than the player's rank
C18_WhatIfMessage ==
  \A rs \in Computed :
    \A i \in 1..Len(rs) :
      LET hypothetical ==
            1 + Cardinality({j \in 1..Len(rs) :
                  j # i /\ rs[j].portfolioReturnPercent > BestReturn(rs[i])})
      IN  /\ rs[i].rank = 1 => rs[i].whatIfMessage = Null
          /\ rs[i].rank > 1 =>
               (rs[i].whatIfMessage # Null <=> hypothetical < rs[i].rank)
          /\ rs[i].whatIfMessage # Null =>
               rs[i].whatIfMessage.hypotheticalRank = hypothetical

\* one player gets a message and another one at a rank above 1 gets none
C18_Witness ==
  \E rs \in Computed :
    /\ \E i \in 1..Len(rs) : rs[i].whatIfMessage # Null
    /\ \E i \in 1..Len(rs) : rs[i].rank > 1 /\ rs[i].whatIfMessage = Null

\* C19: the map fetchFinalPrices returns has a price for every ticker of
\* its input list
C19_PriceResolverTotal ==
  \A p \in Settlers :
    spc[p] = "commit" => sl[p].tickers \subseteq DOMAIN sl[p].finalPrices

\* C20: a settled game for which a final price was synthesized (a known
\* stock without a snapshot of the day) has a dataQualityFlag other than OK
C20_SynthesizedPriceDegradesFlag ==
  \A g \in Games :
    /\ games[g].exists /\ games[g].status = "ENDED"
    /\ \E t \in games[g].tickers :
         priceSnapshots[<<"END", t>>] = 0 /\ t \in KnownStocks
    => games[g].dataQualityFlag # "OK"

\* a Result with this rank, these awards among its awards, and with a
\* what-if message or not
ExampleResult(result, rank, types, message) ==
  /\ result.rank = rank
  /\ \A type \in types : HasAward(result, type)
  /\ message \/ result.whatIfMessage = Null

\* C21: in the three-player example the ranks are P1 = 1, P3 = 2, P2 = 3; P1
\* holds WOLF, ROCKET (+50%) and ORACLE, P2 holds INTERN and BAG_HOLDER, and
\* P1 has no what-if message
C21_ExampleSettlement ==
  /\ \A rs \in Computed :
       \A i \in 1..Len(rs) :
         CASE rs[i].playerId = "P1" ->
                /\ ExampleResult(rs[i], 1, {"WOLF", "ROCKET", "ORACLE"}, FALSE)
                /\ \E a \in 1..Len(rs[i].awards) :
                     /\ rs[i].awards[a].type = "ROCKET"
                     /\ rs[i].awards[a].value = 500000
           [] rs[i].playerId = "P2" ->
                ExampleResult(rs[i], 3, {"INTERN", "BAG_HOLDER"}, TRUE)
           [] OTHER -> ExampleResult(rs[i], 2, {}, TRUE)
  /\ \A q \in PlayerIds :
       results[q].exists =>
         /\ results[q].rank = CASE q = "P1" -> 1 [] q = "P2" -> 3 [] OTHER -> 2
         /\ leaderboard[q].rank = results[q].rank

\* the example has been settled and its results are stored
C21_Witness ==
  /\ results["P1"].exists /\ results["P2"].exists /\ results["P3"].exists
  /\ HasAward(results["P1"], "ORACLE") /\ HasAward(results["P2"], "BAG_HOLDER")
  /\ games["G1"].status = "ENDED"

\* the entry is the projection of the result
ProjectionOf(entry, result) ==
  LET returns == {result.positionResults[k].returnPercent :
                    k \in 1..Len(result.positionResults)}
      Held(position) ==
        \E k \in 1..Len(result.positionResults) :
          /\ result.positionResults[k].ticker = position.ticker
          /\ result.positionResults[k].returnPercent = position.returnPercent
  IN  /\ result.exists
      /\ entry.gameCode = result.gameCode
      /\ entry.playerId = result.playerId
      /\ entry.rank = result.rank
      /\ entry.portfolioReturnPercent = result.portfolioReturnPercent
      /\ entry.finalValue = result.finalValue
      /\ entry.awards = result.awards
      /\ Held(entry.bestPosition) /\ Held(entry.worstPosition)
      /\ \A r \in returns : /\ r <= entry.bestPosition.returnPercent
                            /\ r >= entry.worstPosition.returnPercent

C22_Projection ==
  \A q \in PlayerIds :
    leaderboard[q].exists => ProjectionOf(leaderboard[q], results[q])

\* C22: every LeaderboardEntry is the projection of the Result with the same
\* document id (rank, return, final value, awards, best and worst position),
\* and a step that changes an entry is the commit of a settlement batch
\* that writes the Result of that entry
C22_LeaderboardIsProjection ==
  /\ []C22_Projection
  /\ [][\A q \in PlayerIds :
          leaderboard'[q] # leaderboard[q] =>
            \E p \in Settlers :
              /\ spc[p] = "commit" /\ spc'[p] = "stats"
              /\ \E i \in 1..Len(sl[p].results) :
                   /\ sl[p].results[i].playerId = q
                   /\ results'[q] = sl[p].results[i]]_vars

\* a second batch has replaced the entries of a game with different ones
C22_Witness ==
  \E g \in Games :
    /\ commits[g] >= 2
    /\ \E q \in LeaderboardOf(g) :
         \E p \in Settlers :
           \E i \in 1..Len(sl[p].results) :
             /\ sl[p].wrote /\ sl[p].results[i].playerId = q
             /\ sl[p].results[i].portfolioReturnPercent
                  # leaderboard[q].portfolioReturnPercent

\* C23: with a trigger that keeps firing and a store that accepts every
\* write, every game that is LIVE with its endDate in the past is
\* eventually ENDED
C23_DueGamesEventuallyEnded ==
  \A g \in Games :
    (games[g].exists /\ games[g].status = "LIVE" /\ games[g].endDate <= now)
      ~> (games[g].exists /\ games[g].status = "ENDED")

\* the games the query of a run of the scheduled trigger returns are LIVE
\* and due when the query is made
C24_QueryGuard ==
  [][\A p \in Runs :
       spc[p] = "idle" /\ spc'[p] = "loop" =>
         \A g \in sl'[p].found :
           games[g].status = "LIVE" /\ games[g].endDate <= now]_vars

\* C24: the scheduled trigger settles only games that are LIVE with an
\* endDate that is not later than the current time: a batch of the trigger
\* that moves a game to ENDED finds it LIVE and due
C24_SchedulerSettlesOnlyDueGames ==
  [][\A p \in Runs :
       (/\ spc[p] = "commit" /\ spc'[p] = "stats"
        /\ games[sl[p].game].status # "ENDED")
       => /\ games[sl[p].game].status = "LIVE"
          /\ games[sl[p].game].endDate <= now]_vars

\* C25: a step that changes the statistics of a user is made by a
\* settleGame call whose batch has committed: the Results and
\* LeaderboardEntries of its game are stored and the game is ENDED; a call
\* whose batch was not committed never reaches updateUserStats
C25_StatsAfterCommit ==
  /\ [](\A p \in Settlers :
          spc[p] \in {"stats", "stats_w"} =>
            sl[p].wrote /\ commits[sl[p].game] >= 1)
  /\ [][users' # users =>
          \E p \in Settlers :
            /\ spc[p] = "stats_w" /\ sl[p].wrote
            /\ commits[sl[p].game] >= 1
            /\ games[sl[p].game].status = "ENDED"
            /\ HasAllResults(sl[p].game)
            /\ \A u \in Users : users'[u] # users[u] => u = sl[p].userId]_vars

\* the batch of one game was rejected and left the statistics alone, the
\* batch of the other one committed and the statistics were updated
C25_Witness ==
  \E g, h \in Games :
    /\ commits[g] = 0 /\ faults >= 1
    /\ \E p \in Settlers : sl[p].game = g /\ spc[p] = "threw" /\ ~sl[p].wrote
    /\ commits[h] >= 1
    /\ \E u \in Users : users[u].stats.gamesPlayed >= 1

\* C26: of two results of a game, the one with the strictly greater
\* portfolioReturnPercent has the strictly smaller rank
C26_RanksFollowReturns ==
  \A rs \in Computed :
    \A i, j \in 1..Len(rs) :
      rs[i].portfolioReturnPercent > rs[j].portfolioReturnPercent
      => rs[i].rank < rs[j].rank

\* three different returns, in the reverse of the order of the players query
C26_Witness ==
  \E rs \in Computed :
    /\ Len(rs) = 3
    /\ rs[1].playerId = "P3" /\ rs[2].playerId = "P2" /\ rs[3].playerId = "P1"
    /\ rs[1].portfolioReturnPercent > rs[2].portfolioReturnPercent
    /\ rs[2].portfolioReturnPercent > rs[3].portfolioReturnPercent

\* the positions of all results as <<result, position>> index pairs
AllPositions(rs) ==
  {<<i, k>> : i \in 1..Len(rs), k \in 1..3}

\* <<i, k>> comes before <<j, m>> in the iteration: players in rank order,
\* positions in portfolio order
Earlier(a, b) == a[1] < b[1] \/ (a[1] = b[1] /\ a[2] < b[2])

\* the number of awards of this type the results hold
AwardCount(rs, type) ==
  Cardinality({<<i, a>> \in (1..Len(rs)) \X (1..7) :
                 a <= Len(rs[i].awards) /\ rs[i].awards[a].type = type})

\* result holds the award of this type for this position
HoldsFor(result, type, position, value) ==
  \E a \in 1..Len(result.awards) :
    /\ result.awards[a].type = type
    /\ result.awards[a].ticker = position.ticker
    /\ result.awards[a].value = value

\* C27: exactly one ROCKET is granted, to the owner of the first position,
\* in iteration order, whose return is the maximum over all positions
C27_RocketToFirstBest ==
  \A rs \in Computed :
    LET best == CHOOSE r \in PositionReturns(rs) :
                  \A x \in PositionReturns(rs) : x <= r
        first == CHOOSE a \in AllPositions(rs) :
                   /\ rs[a[1]].positionResults[a[2]].returnPercent = best
                   /\ \A b \in AllPositions(rs) :
                        rs[b[1]].positionResults[b[2]].returnPercent = best
                        => a = b \/ Earlier(a, b)
    IN  /\ \A i \in 1..Len(rs) : rs[i].rank = i
        /\ AwardCount(rs, "ROCKET") = 1
        /\ HoldsFor(rs[first[1]], "ROCKET",
                    rs[first[1]].positionResults[first[2]], best)

\* two players hold a position with the best return; the better-ranked
\* one has the award
C27_Witness ==
  \E rs \in Computed :
    \E i, j \in 1..Len(rs) :
      /\ i < j
      /\ \E k, m \in 1..3 :
           /\ rs[i].positionResults[k].returnPercent
                = rs[j].positionResults[m].returnPercent
           /\ \A x \in PositionReturns(rs) :
                x <= rs[i].positionResults[k].returnPercent
      /\ HasAward(rs[i], "ROCKET") /\ ~HasAward(rs[j], "ROCKET")

\* every position of the result has a strictly positive return
Qualifies(result) ==
  \A k \in 1..Len(result.positionResults) :
    result.positionResults[k].returnPercent > 0

\* C28: ORACLE is held by at most one player, the best-ranked one all of
\* whose positions have a strictly positive return; by nobody when no
\* player qualifies
C28_OracleToFirstAllGreen ==
  \A rs \in Computed :
    /\ AwardCount(rs, "ORACLE") <= 1
    /\ \A i \in 1..Len(rs) :
         HasAward(rs[i], "ORACLE") <=>
           /\ Qualifies(rs[i])
           /\ \A j \in 1..Len(rs) : Qualifies(rs[j]) => rs[i].rank <= rs[j].rank

\* two players qualify and only the better-ranked one holds ORACLE
C28_Witness ==
  \E rs \in Computed :
    \E i, j \in 1..Len(rs) :
      /\ rs[i].rank < rs[j].rank
      /\ Qualifies(rs[i]) /\ Qualifies(rs[j])
      /\ HasAward(rs[i], "ORACLE") /\ ~HasAward(rs[j], "ORACLE")

SnapshotPrice(t) ==
  IF priceSnapshots[<<"END", t>>] # 0 THEN priceSnapshots[<<"END", t>>]
  ELSE storedQuotes[<<"END", t>>]

\* C30: when settleGame computes the results, the final price of every
\* position on a ticker that has a snapshot for the settlement day is the
\* price stored in that snapshot
C30_SnapshotPriceUsed ==
  [][\A p \in Settlers :
       spc[p] = "players" /\ spc'[p] = "commit" =>
         \A i \in 1..Len(sl'[p].results) :
           \A k \in 1..Len(sl'[p].results[i].positionResults) :
             LET position == sl'[p].results[i].positionResults[k]
             IN  SnapshotPrice(position.ticker) # 0
                 => position.finalPrice = SnapshotPrice(position.ticker)]_vars

\* the rank and the awards of every player in a list of results
Outcome(rs) ==
  {<<rs[i].playerId, rs[i].rank, rs[i].awards>> : i \in 1..Len(rs)}

\* C31: two settlement computations of the same game from the same stored
\* games, players and snapshots have the same final prices, ranks and awards
C31_SettlementDeterministic ==
  \A p \in Settlers, q \in Settlers :
    /\ spc[p] = "commit" /\ spc[q] = "commit"
    /\ sl[p].game = sl[q].game
    => /\ sl[p].finalPrices = sl[q].finalPrices
       /\ Outcome(sl[p].results) = Outcome(sl[q].results)

\* C32: the update of updateUserStats for a settled player with a linked,
\* existing user gives gamesPlayed + 1, gamesWon + 1 iff the rank is 1,
\* bestReturn = max(old, return) and averageRank = (old average * old count
\* + rank) / (old count + 1), old being the statistics it read (bestReturn
\* and averageRank are stored in units of 1e-2, returns in units of 1e-4);
\* the pass over a player with a null userId changes no user document
C32_StatsUpdate ==
  [][\A p \in Settlers :
       /\ spc[p] = "stats_w" /\ spc'[p] = "stats"
          => LET new == users'[sl[p].userId].stats
                 old == sl[p].stats
                 result == sl[p].results[sl[p].idx]
             IN  /\ new.gamesPlayed = old.gamesPlayed + 1
                 /\ new.gamesWon
                      = old.gamesWon + (IF result.rank = 1 THEN 1 ELSE 0)
                 /\ new.bestReturn * 100
                      = Max(old.bestReturn * 100, result.portfolioReturnPercent)
                 /\ new.averageRank * (old.gamesPlayed + 1)
                      = old.averageRank * old.gamesPlayed + 100 * result.rank
       /\ /\ spc[p] = "stats" /\ sl[p].idx <= Len(sl[p].results)
          /\ players[sl[p].results[sl[p].idx].playerId].exists
          /\ players[sl[p].results[sl[p].idx].playerId].userId = Anonymous
          /\ sl'[p].idx = sl[p].idx + 1
          => users' = users]_vars

\* C33: in a launched game every position of every player has the
\* initialPrice of the game's initialPricesSnapshot for its ticker and the
\* quantity budgetInvested / initialPrice (0 when the price is 0), and no
\* step of a settlement changes a player document
C33_PortfolioFrozenAtLaunch ==
  /\ [](\A g \in Games :
          games[g].exists /\ games[g].status \in {"LIVE", "ENDED"} =>
            \A q \in PlayerIds :
              players[q].exists /\ players[q].gameCode = g =>
                \A k \in 1..Len(players[q].portfolio) :
                  LET position == players[q].portfolio[k]
                  IN  /\ position.ticker \in DOMAIN games[g].initialPricesSnapshot
                      /\ position.initialPrice
                           = games[g].initialPricesSnapshot[position.ticker]
                      /\ position.quantity
                           = calculateQuantity(position.budgetInvested,
                                               position.initialPrice))
  /\ [][spc' # spc \/ sl' # sl => players' = players]_vars

\* G1 was launched with a mock price for T4 and has been settled
C33_Witness ==
  /\ games["G1"].exists /\ games["G1"].status = "ENDED"
  /\ priceSnapshots[<<"J1", "T4">>] = 0
  /\ HasAllResults("G1")
  /\ \E q \in PlayerIds :
       /\ players[q].exists /\ players[q].gameCode = "G1"
       /\ \E k \in 1..Len(players[q].portfolio) :
            /\ players[q].portfolio[k].ticker = "T4"
            /\ players[q].portfolio[k].initialPrice # 0
            /\ players[q].portfolio[k].quantity # Rat(0)

\* C34: settlement counts a game at most once in the gamesPlayed of a
\* linked user playing in it: starting from 0, gamesPlayed never exceeds
\* the number of games the user has a player in
C34_GameCountedOnce ==
  \A u \in Users :
    users[u].stats.gamesPlayed
      <= Cardinality({g \in Games :
                        \E q \in PlayerIds :
                          /\ players[q].exists
                          /\ players[q].gameCode = g
                          /\ players[q].userId = u})

\* C35: once G1 and G2, which share the linked user U1 (players P1 and
\* P3), have each been settled once, no statistics update was rejected and
\* the settleGame calls that committed have left updateUserStats,
\* the gamesPlayed of U1 has grown by 2 and its gamesWon by the number of
\* the two games U1 won
C35_NoLostStatsUpdate ==
  /\ commits["G1"] = 1 /\ commits["G2"] = 1
  /\ faults = 0
  /\ \A p \in Settlers : spc[p] \notin {"stats", "stats_w", "audit"}
  => /\ users["U1"].stats.gamesPlayed = 2
     /\ users["U1"].stats.gamesWon
          = Cardinality({q \in {"P1", "P3"} : results[q].rank = 1})

\* C36: every player document of a LIVE or ENDED game has isReady = true
C36_LaunchedPlayersAreReady ==
  \A q \in PlayerIds :
    /\ players[q].exists
    /\ games[players[q].gameCode].exists
    /\ games[players[q].gameCode].status \in {"LIVE", "ENDED"}
    => players[q].isReady

C38_PlayerCountMatchesDocuments ==
  \A g \in Games :
    games[g].exists =>
      games[g].playerCount
        = Cardinality({q \in PlayerIds :
                         players[q].exists /\ players[q].gameCode = g})

\* C39: no two players of a game have nicknames that are equal ignoring case
C39_NicknamesUnique ==
  \A q \in PlayerIds, r \in PlayerIds :
    /\ q # r
    /\ players[q].exists /\ players[r].exists
    /\ players[q].gameCode = players[r].gameCode
    => toLowerCase(players[q].nickname) # toLowerCase(players[r].nickname)

\* C40: a response of getGamePlayers for a game read in DRAFT has, for
\* every player, the number of positions and no position data; it is the
\* response for the same players with every position replaced by another
\* one, so it does not depend on the contents of the portfolios; and
\* portfoliosVisible is true exactly when the status is not DRAFT
C40_DraftPortfoliosHidden ==
  /\ [](\A w \in Viewers :
          gpc[w] = "returned" =>
            LET response == gl[w].response
            IN  /\ response.portfoliosVisible = (response.status # "DRAFT")
                /\ response.status = "DRAFT" =>
                     \A i \in 1..Len(response.players) :
                       DOMAIN response.players[i]
                         = {"playerId", "userId", "nickname", "isReady",
                            "portfolioCount"})
  /\ [][\A w \in Viewers :
          gpc[w] = "players" /\ gpc'[w] = "returned" /\ gl[w].status = "DRAFT"
          => \A t \in Tickers, budget \in {0, TOTAL_BUDGET} :
               LET playerDocs == PlayersOf(gl[w].game)
                   other ==
                     [i \in 1..Len(playerDocs) |->
                        [playerDocs[i] EXCEPT !.portfolio =
                           [k \in 1..Len(@) |-> Position(t, budget, 1)]]]
               IN  gl'[w].response = GamePlayersResponse("DRAFT", other)]_vars

\* a response for the DRAFT game with a player of three positions, and the
\* game has been launched since getGamePlayers read it
C40_Witness ==
  \E w \in Viewers :
    /\ gpc[w] = "returned"
    /\ gl[w].response.status = "DRAFT"
    /\ \E i \in 1..Len(gl[w].response.players) :
         gl[w].response.players[i].portfolioCount = 3
    /\ games[gl[w].game].status = "LIVE"

====
